---------------------------- MODULE Spec2Model ----------------------------
(***************************************************************************)
(* A model of the EPGOAT linker prototype                                  *)
(* (src/engineering/linker/linker_prototype.py): the shell matcher, the    *)
(* classifier, the time resolver and the per-day scheduler of main().      *)
(*                                                                         *)
(* Text is a sequence of one-character strings.  Offsets are 0-based as in *)
(* Python: offset p designates the boundary before element p + 1.  Local   *)
(* times in the output zone are integers: minutes of wall-clock time       *)
(* counted from 00:00 of the target date.                                  *)
(***************************************************************************)
EXTENDS Integers, Sequences, FiniteSets, TLC

(***************************************************************************)
(* Characters.                                                             *)
(***************************************************************************)
\* U+24E7, the one non-ASCII character of the pattern table (line 100).
CircledX == "(x)"

\* Python's None, where a text is expected and where a match object is.
NoneStr == <<>>

NoneMatch == [end |-> -1]

Digit == {"0", "1", "2", "3", "4", "5", "6", "7", "8", "9"}

\* What \s and str.strip() take as whitespace, within the model's alphabet.
Space == {" ", "\t"}

LowerLetters ==
  <<"a", "b", "c", "d", "e", "f", "g", "h", "i", "j", "k", "l", "m",
    "n", "o", "p", "q", "r", "s", "t", "u", "v", "w", "x", "y", "z">>

UpperLetters ==
  <<"A", "B", "C", "D", "E", "F", "G", "H", "I", "J", "K", "L", "M",
    "N", "O", "P", "Q", "R", "S", "T", "U", "V", "W", "X", "Y", "Z">>

Letter == {UpperLetters[i] : i \in 1..26}

UpperMap ==
  [c \in {LowerLetters[i] : i \in 1..26} |->
     UpperLetters[CHOOSE i \in 1..26 : LowerLetters[i] = c]]

\* str.upper() on one character; also the case folding of re.IGNORECASE.
Upper(c) == IF c \in DOMAIN UpperMap THEN UpperMap[c] ELSE c

upper(s) == [i \in 1..Len(s) |-> Upper(s[i])]

RECURSIVE lstrip(_)
lstrip(s) ==
  IF s # <<>> /\ Head(s) \in Space THEN lstrip(Tail(s)) ELSE s

RECURSIVE rstrip(_)
rstrip(s) ==
  IF s # <<>> /\ s[Len(s)] \in Space THEN rstrip(SubSeq(s, 1, Len(s) - 1)) ELSE s

\* str.strip()
strip(s) == rstrip(lstrip(s))

\* s[p:] for an offset p >= 0
SliceFrom(s, p) == SubSeq(s, p + 1, Len(s))

(***************************************************************************)
(* Regular expressions of the shapes the program uses: a sequence of       *)
(* items, each a character class repeated lo..hi times (hi = -1: no upper  *)
(* limit), matched greedily with backtracking, case-insensitively.         *)
(* ch is the character as written in the pattern.                          *)
(***************************************************************************)
Lit(c) == [set |-> {Upper(c)}, lo |-> 1, hi |-> 1, ch |-> c]

Opt(c) == [set |-> {Upper(c)}, lo |-> 0, hi |-> 1, ch |-> c]

Rep(cls, lo, hi) == [set |-> cls, lo |-> lo, hi |-> hi, ch |-> CHOOSE c \in cls : TRUE]

Plus(cls) == Rep(cls, 1, -1)

Star(cls) == Rep(cls, 0, -1)

Str(cs) == [i \in 1..Len(cs) |-> Lit(cs[i])]

\* The largest member of a non-empty set of integers, and the smallest.
Largest(S) == CHOOSE m \in S : \A m2 \in S : m2 <= m

Smallest(S) == CHOOSE m \in S : \A m2 \in S : m <= m2

\* The number of characters from offset pos on that item tok can take,
\* counting on from n.
RunLen(s, pos, tok, n) ==
  LET cap == IF tok.hi = -1 \/ Len(s) - pos < tok.hi THEN Len(s) - pos ELSE tok.hi
  IN  Smallest({ m \in n..cap : m = cap \/ Upper(s[pos + m + 1]) \notin tok.set })

\* The number of items from item k on that take exactly one character each.
Singles(items, k) ==
  Smallest({ j \in k..(Len(items) + 1) :
               j = Len(items) + 1 \/ items[j].lo # 1 \/ items[j].hi # 1 }) - k

\* re.compile: the items, and for each the number of one-character items
\* that start there.
Compile(items) ==
  [items |-> items, singles |-> [k \in 1..Len(items) |-> Singles(items, k)]]

\* The f one-character items from item k on match at offset pos of s.
SinglesMatch(items, k, f, s, pos) ==
  /\ pos + f <= Len(s)
  /\ \A i \in 1..f : Upper(s[pos + i]) \in items[k + i - 1].set

\* Match items k.. of rx at offset pos of s: the end offset of the match the
\* regex engine finds first, or -1.  Backtrack has item k take n characters,
\* then fewer.
RECURSIVE MatchFrom(_, _, _, _)
RECURSIVE Backtrack(_, _, _, _, _)
MatchFrom(rx, k, s, pos) ==
  IF k > Len(rx.items) THEN pos
  ELSE IF rx.singles[k] > 0
  THEN (IF SinglesMatch(rx.items, k, rx.singles[k], s, pos)
        THEN MatchFrom(rx, k + rx.singles[k], s, pos + rx.singles[k])
        ELSE -1)
  ELSE Backtrack(rx, k, s, pos, RunLen(s, pos, rx.items[k], 0))

Backtrack(rx, k, s, pos, n) ==
  IF n < rx.items[k].lo THEN -1
  ELSE LET r == MatchFrom(rx, k + 1, s, pos + n)
       IN  IF r # -1 THEN r ELSE Backtrack(rx, k, s, pos, n - 1)

\* rx.match(s): anchored at the start; the match object (its end offset), or NoneMatch.
rx_match(rx, s) ==
  LET e == MatchFrom(rx, 1, s, 0)
  IN  [end |-> e]

(***************************************************************************)
(* Program constants.                                                      *)
(***************************************************************************)
\* --event-duration-min and --max-event-duration-min, as argparse defaults
DefaultEventDuration == 180

DefaultMaxEventDuration == 360

\* block_minutes, as main passes it to fill_no_programming
FillBlockMinutes == 120

\* day_end - day_start: timedelta(days=1), in minutes
DayMinutes == 1440

\* validate_schedule's limit on a block's duration, in hours
MaxBlockHours == 12

\* _handle_year_rollover's threshold, in days
RolloverDays == 60
ALLOWED_CHANNEL_PATTERNS ==
  <<
      [pattern |-> Str(<<"B", "I", "G", "1", "0", "+", " ">>) \o <<Rep(Digit, 2, 2)>> \o Str(<<":">>),
       name |-> <<"B", "I", "G", "1", "0", "+">>],
      [pattern |-> Str(<<"B", "u", "n", "d", "e", "s", "l", "i", "g", "a", " ">>) \o <<Rep(Digit, 2, 2)>> \o Str(<<":">>),
       name |-> <<"B", "u", "n", "d", "e", "s", "l", "i", "g", "a">>],
      [pattern |-> Str(<<"E", "P", "L", " ">>) \o <<Rep(Digit, 2, 2)>> \o <<Opt(":")>>,
       name |-> <<"E", "P", "L">>],
      [pattern |-> Str(<<"E", "P", "L">>) \o <<Rep(Digit, 2, 2)>>,
       name |-> <<"E", "P", "L">>],
      [pattern |-> Str(<<"L", "a", " ", "L", "i", "g", "a", " ">>) \o <<Rep(Digit, 2, 2)>> \o Str(<<":">>),
       name |-> <<"L", "a", " ", "L", "i", "g", "a">>],
      [pattern |-> Str(<<"L", "i", "g", "u", "e", "1", " ">>) \o <<Rep(Digit, 2, 2)>> \o Str(<<":">>),
       name |-> <<"L", "i", "g", "u", "e", "1">>],
      [pattern |-> Str(<<"S", "e", "r", "i", "e", " ", "A", " ">>) \o <<Rep(Digit, 2, 2)>> \o Str(<<":">>),
       name |-> <<"S", "e", "r", "i", "e", " ", "A">>],
      [pattern |-> Str(<<"S", "c", "o", "t", "t", "i", "s", "h", " ", "P", "r", "e", "m", "i", "e", "r", "s", "h", "i", "p", " ">>) \o <<Rep(Digit, 2, 2)>> \o Str(<<":">>),
       name |-> <<"S", "c", "o", "t", "t", "i", "s", "h", " ", "P", "r", "e", "m", "i", "e", "r", "s", "h", "i", "p">>],
      [pattern |-> Str(<<"S", "P", "F", "L", " ">>) \o <<Rep(Digit, 2, 2)>> \o Str(<<":">>),
       name |-> <<"S", "P", "F", "L">>],
      [pattern |-> Str(<<"N", "B", "A", " ">>) \o <<Rep(Digit, 2, 2)>> \o Str(<<":">>),
       name |-> <<"N", "B", "A">>],
      [pattern |-> Str(<<"N", "C", "A", "A", "B", " ">>) \o <<Rep(Digit, 2, 2)>> \o Str(<<":">>),
       name |-> <<"N", "C", "A", "A", "B">>],
      [pattern |-> Str(<<"N", "C", "A", "A", "W", " ", "B", " ">>) \o <<Rep(Digit, 2, 2)>> \o Str(<<":">>),
       name |-> <<"N", "C", "A", "A", "W", " ", "B">>],
      [pattern |-> Str(<<"N", "J", "C", "A", "A", " ", "M", "e", "n", "'", "s", " ", "B", "a", "s", "k", "e", "t", "b", "a", "l", "l", " ">>) \o <<Rep(Digit, 2, 2)>> \o Str(<<":">>),
       name |-> <<"N", "J", "C", "A", "A", " ", "M", "e", "n", "'", "s", " ", "B", "a", "s", "k", "e", "t", "b", "a", "l", "l">>],
      [pattern |-> Str(<<"N", "J", "C", "A", "A", " ", "W", "o", "m", "e", "n", "'", "s", " ", "B", "a", "s", "k", "e", "t", "b", "a", "l", "l", " ">>) \o <<Rep(Digit, 2, 2)>> \o Str(<<":">>),
       name |-> <<"N", "J", "C", "A", "A", " ", "W", "o", "m", "e", "n", "'", "s", " ", "B", "a", "s", "k", "e", "t", "b", "a", "l", "l">>],
      [pattern |-> Str(<<"U", "S", "A", " ", "R", "e", "a", "l", " ", "N", "B", "A", " ">>) \o <<Rep(Digit, 2, 2)>> \o Str(<<":">>),
       name |-> <<"U", "S", "A", " ", "R", "e", "a", "l", " ", "N", "B", "A">>],
      [pattern |-> Str(<<"W", "N", "B", "A", " ">>) \o <<Rep(Digit, 2, 2)>> \o <<Opt(":")>>,
       name |-> <<"W", "N", "B", "A">>],
      [pattern |-> Str(<<"F", "I", "B", "A", " ">>) \o <<Rep(Digit, 2, 2)>> \o Str(<<":">>),
       name |-> <<"F", "I", "B", "A">>],
      [pattern |-> Str(<<"N", "C", "A", "A", "F", " ">>) \o <<Rep(Digit, 2, 3)>> \o <<Opt(":")>>,
       name |-> <<"N", "C", "A", "A", "F">>],
      [pattern |-> Str(<<"N", "F", "L", " ">>) \o <<Rep(Digit, 2, 2)>> \o <<Opt(":")>>,
       name |-> <<"N", "F", "L">>],
      [pattern |-> Str(<<"N", "F", "L", " ", "G", "a", "m", "e", " ", "P", "a", "s", "s", " ">>) \o <<Plus(Digit)>>,
       name |-> <<"N", "F", "L", " ", "G", "a", "m", "e", " ", "P", "a", "s", "s">>],
      [pattern |-> Str(<<"N", "F", "L", " ", "M", "u", "l", "t", "i", " ", "S", "c", "r", "e", "e", "n", " ", "/", " ", "H", "D", "R", " ">>) \o <<Plus(Digit)>>,
       name |-> <<"N", "F", "L", " ", "M", "u", "l", "t", "i", " ", "S", "c", "r", "e", "e", "n">>],
      [pattern |-> Str(<<"N", "F", "L">>) \o <<Plus(Space)>> \o Str(<<"|">>) \o <<Plus(Space)>> \o <<Rep(Digit, 2, 2)>>,
       name |-> <<"N", "F", "L", " ", "|">>],
      [pattern |-> Str(<<"N", "H", "L", " ">>) \o <<Rep(Digit, 2, 2)>> \o Str(<<":">>),
       name |-> <<"N", "H", "L">>],
      [pattern |-> Str(<<"N", "H", "L", " ", "|", " ">>) \o <<Rep(Digit, 2, 2)>> \o Str(<<":">>),
       name |-> <<"N", "H", "L", " ", "|">>],
      [pattern |-> Str(<<"U", "S", "A", " ", "R", "e", "a", "l", " ", "N", "H", "L", " ">>) \o <<Rep(Digit, 2, 2)>> \o Str(<<":">>),
       name |-> <<"U", "S", "A", " ", "R", "e", "a", "l", " ", "N", "H", "L">>],
      [pattern |-> Str(<<"W", "H", "L", " ">>) \o <<Rep(Digit, 2, 2)>> \o Str(<<":">>),
       name |-> <<"W", "H", "L">>],
      [pattern |-> Str(<<"Q", "M", "J", "H", "L", " ">>) \o <<Rep(Digit, 2, 2)>> \o Str(<<":">>),
       name |-> <<"Q", "M", "J", "H", "L">>],
      [pattern |-> Str(<<"O", "H", "L", " ">>) \o <<Rep(Digit, 2, 2)>> \o Str(<<":">>),
       name |-> <<"O", "H", "L">>],
      [pattern |-> Str(<<"M", "L", "B", " ">>) \o <<Rep(Digit, 2, 2)>> \o Str(<<":">>),
       name |-> <<"M", "L", "B">>],
      [pattern |-> Str(<<"M", "i", "L", "B", " ">>) \o <<Rep(Digit, 2, 2)>> \o Str(<<":">>),
       name |-> <<"M", "i", "L", "B">>],
      [pattern |-> Str(<<"M", "I", "L", "B", " ">>) \o <<Rep(Digit, 2, 2)>> \o Str(<<":">>),
       name |-> <<"M", "I", "L", "B">>],
      [pattern |-> Str(<<"U", "S", "A", " ", "R", "e", "a", "l", " ", "M", "L", "B", " ">>) \o <<Rep(Digit, 2, 2)>> \o Str(<<":">>),
       name |-> <<"U", "S", "A", " ", "R", "e", "a", "l", " ", "M", "L", "B">>],
      [pattern |-> Str(<<"M", "L", "S", " ">>) \o <<Rep(Digit, 2, 2)>> \o <<Opt(":")>>,
       name |-> <<"M", "L", "S">>],
      [pattern |-> Str(<<"M", "L", "S", " ">>) \o <<Rep(Digit, 1, 3)>> \o Str(<<" ", "|">>),
       name |-> <<"M", "L", "S">>],
      [pattern |-> Str(<<"M", "L", "S", " ", "N", "E", "X", "T", " ", "P", "R", "O", " ">>) \o <<Rep(Digit, 2, 2)>>,
       name |-> <<"M", "L", "S", " ", "N", "E", "X", "T", " ", "P", "R", "O">>],
      [pattern |-> Str(<<"M", "L", "S", " ", "E", "s", "p", "a", "n", "o", "l", CircledX, " ">>) \o <<Rep(Digit, 2, 2)>>,
       name |-> <<"M", "L", "S", " ", "E", "s", "p", "a", "n", "o", "l">>],
      [pattern |-> Str(<<"U", "S", "A", " ", "|", " ", "M", "L", "S", " ">>) \o <<Rep(Digit, 2, 2)>>,
       name |-> <<"U", "S", "A", " ", "|", " ", "M", "L", "S">>],
      [pattern |-> Str(<<"U", "S", "A", " ", "S", "o", "c", "c", "e", "r">>) \o <<Rep(Digit, 2, 2)>> \o Str(<<":">>),
       name |-> <<"U", "S", "A", " ", "S", "o", "c", "c", "e", "r">>],
      [pattern |-> Str(<<"F", "A", " ", "C", "u", "p", " ">>) \o <<Rep(Digit, 2, 2)>>,
       name |-> <<"F", "A", " ", "C", "u", "p">>],
      [pattern |-> Str(<<"E", "F", "L">>) \o <<Rep(Digit, 2, 2)>>,
       name |-> <<"E", "F", "L">>],
      [pattern |-> Str(<<"S", "u", "p", "e", "r", " ", "L", "e", "a", "g", "u", "e", " ", "+", " ">>) \o <<Rep(Digit, 2, 2)>>,
       name |-> <<"S", "u", "p", "e", "r", " ", "L", "e", "a", "g", "u", "e">>],
      [pattern |-> Str(<<"U", "E", "F", "A", " ", "C", "h", "a", "m", "p", "i", "o", "n", "s", " ", "L", "e", "a", "g", "u", "e", " ">>) \o <<Rep(Digit, 2, 2)>> \o Str(<<":">>),
       name |-> <<"U", "E", "F", "A", " ", "C", "h", "a", "m", "p", "i", "o", "n", "s", " ", "L", "e", "a", "g", "u", "e">>],
      [pattern |-> Str(<<"U", "E", "F", "A", " ", "E", "u", "r", "o", "p", "a", " ", "L", "e", "a", "g", "u", "e", " ">>) \o <<Rep(Digit, 2, 2)>> \o Str(<<":">>),
       name |-> <<"U", "E", "F", "A", " ", "E", "u", "r", "o", "p", "a", " ", "L", "e", "a", "g", "u", "e">>],
      [pattern |-> Str(<<"U", "E", "F", "A", " ", "E", "u", "r", "o", "p", "a", " ", "C", "o", "n", "f", ".", " ", "L", "e", "a", "g", "u", "e", " ">>) \o <<Rep(Digit, 2, 2)>> \o Str(<<":">>),
       name |-> <<"U", "E", "F", "A", " ", "E", "u", "r", "o", "p", "a", " ", "C", "o", "n", "f", " ", "L", "e", "a", "g", "u", "e">>],
      [pattern |-> Str(<<"U", "E", "F", "A", "/", "F", "I", "F", "A", " ">>) \o <<Rep(Digit, 2, 2)>>,
       name |-> <<"U", "E", "F", "A", "/", "F", "I", "F", "A">>],
      [pattern |-> Str(<<"G", "A", "A", "G", "O", ":", "G", "A", "M", "E", " ">>) \o <<Rep(Digit, 2, 2)>>,
       name |-> <<"G", "A", "A", "G", "O">>],
      [pattern |-> Str(<<"L", "O", "I", " ", "G", "A", "M", "E", " ">>) \o <<Rep(Digit, 2, 2)>>,
       name |-> <<"L", "O", "I">>],
      [pattern |-> Str(<<"N", "a", "t", "i", "o", "n", "a", "l", " ", "L", "e", "a", "g", "u", "e", " ", "T", "V", " ">>) \o <<Rep(Digit, 2, 2)>>,
       name |-> <<"N", "a", "t", "i", "o", "n", "a", "l", " ", "L", "e", "a", "g", "u", "e", " ", "T", "V">>],
      [pattern |-> Str(<<"D", "A", "Z", "N", " ", "B", "E", " ">>) \o <<Rep(Digit, 2, 2)>> \o Str(<<":">>),
       name |-> <<"D", "A", "Z", "N", " ", "B", "E">>],
      [pattern |-> Str(<<"D", "A", "Z", "N", " ", "C", "A", " ">>) \o <<Plus(Digit)>> \o <<Opt(":")>>,
       name |-> <<"D", "A", "Z", "N", " ", "C", "A">>],
      [pattern |-> Str(<<"E", "S", "P", "N", "+", " ">>) \o <<Plus(Digit)>> \o <<Opt(":")>>,
       name |-> <<"E", "S", "P", "N", "+">>],
      [pattern |-> Str(<<"F", "a", "n", "a", "t", "i", "z", " ">>) \o <<Rep(Digit, 2, 2)>> \o Str(<<":">>),
       name |-> <<"F", "a", "n", "a", "t", "i", "z">>],
      [pattern |-> Str(<<"F", "l", "o", " ", "F", "o", "o", "t", "b", "a", "l", "l", " ">>) \o <<Rep(Digit, 2, 2)>> \o Str(<<":">>),
       name |-> <<"F", "l", "o", " ", "F", "o", "o", "t", "b", "a", "l", "l">>],
      [pattern |-> Str(<<"F", "l", "o", " ", "R", "a", "c", "i", "n", "g", " ">>) \o <<Rep(Digit, 2, 2)>> \o Str(<<":">>),
       name |-> <<"F", "l", "o", " ", "R", "a", "c", "i", "n", "g">>],
      [pattern |-> Str(<<"F", "l", "o", " ", "S", "p", "o", "r", "t", "s", " ">>) \o <<Rep(Digit, 2, 4)>> \o Str(<<":">>),
       name |-> <<"F", "l", "o", " ", "S", "p", "o", "r", "t", "s">>],
      [pattern |-> Str(<<"P", "a", "r", "a", "m", "o", "u", "n", "t", "+", " ">>) \o <<Rep(Digit, 2, 3)>> \o <<Opt(":")>>,
       name |-> <<"P", "a", "r", "a", "m", "o", "u", "n", "t", "+">>],
      [pattern |-> Str(<<"P", "e", "a", "c", "o", "c", "k", " ">>) \o <<Rep(Digit, 2, 2)>> \o Str(<<":">>),
       name |-> <<"P", "e", "a", "c", "o", "c", "k">>],
      [pattern |-> Str(<<"P", "r", "i", "m", "e", " ", "U", "S", " ">>) \o <<Rep(Digit, 2, 2)>> \o Str(<<":">>),
       name |-> <<"P", "r", "i", "m", "e", " ", "U", "S">>],
      [pattern |-> Str(<<"S", "E", "C", "+", " ", "/", " ", "A", "C", "C", " ", "e", "x", "t", "r", "a", " ">>) \o <<Rep(Digit, 2, 2)>>,
       name |-> <<"S", "E", "C", "+", "/", "A", "C", "C", " ", "e", "x", "t", "r", "a">>],
      [pattern |-> Str(<<"F", "u", "b", "o", " ", "S", "p", "o", "r", "t", "s", " ", "N", "e", "t", "w", "o", "r", "k", " ">>) \o <<Rep(Digit, 2, 2)>>,
       name |-> <<"F", "u", "b", "o", " ", "S", "p", "o", "r", "t", "s", " ", "N", "e", "t", "w", "o", "r", "k">>],
      [pattern |-> Str(<<"S", "p", "o", "r", "t", "s", "n", "e", "t", "+", " ">>) \o <<Rep(Digit, 2, 2)>> \o <<Opt(":")>>,
       name |-> <<"S", "p", "o", "r", "t", "s", "n", "e", "t", "+">>],
      [pattern |-> Str(<<"T", "S", "N", "+", " ">>) \o <<Rep(Digit, 2, 2)>> \o Str(<<":">>),
       name |-> <<"T", "S", "N", "+">>],
      [pattern |-> Str(<<"M", "A", "X", " ", "N", "L", " ">>) \o <<Rep(Digit, 2, 3)>> \o Str(<<":">>),
       name |-> <<"M", "A", "X", " ", "N", "L">>],
      [pattern |-> Str(<<"M", "A", "X", " ", "S", "E", " ">>) \o <<Rep(Digit, 2, 3)>> \o Str(<<":">>),
       name |-> <<"M", "A", "X", " ", "S", "E">>],
      [pattern |-> Str(<<"M", "A", "X", " ", "U", "S", "A", " ">>) \o <<Rep(Digit, 2, 2)>> \o Str(<<":">>),
       name |-> <<"M", "A", "X", " ", "U", "S", "A">>],
      [pattern |-> Str(<<"V", "i", "a", "p", "l", "a", "y", " ", "N", "L", " ">>) \o <<Rep(Digit, 2, 2)>> \o Str(<<":">>),
       name |-> <<"V", "i", "a", "p", "l", "a", "y", " ", "N", "L">>],
      [pattern |-> Str(<<"V", "i", "a", "p", "l", "a", "y", " ", "S", "E", " ">>) \o <<Rep(Digit, 2, 2)>> \o Str(<<":">>),
       name |-> <<"V", "i", "a", "p", "l", "a", "y", " ", "S", "E">>],
      [pattern |-> Str(<<"V", "i", "a", "p", "l", "a", "y", " ", "N", "O", " ">>) \o <<Plus(Digit)>>,
       name |-> <<"V", "i", "a", "p", "l", "a", "y", " ", "N", "O">>],
      [pattern |-> Str(<<"T", "V", "2", " ", "N", "O", " ">>) \o <<Rep(Digit, 2, 2)>> \o Str(<<":">>),
       name |-> <<"T", "V", "2", " ", "N", "O">>],
      [pattern |-> Str(<<"T", "v", "4", " ", "P", "l", "a", "y", " ", "S", "E", " ">>) \o <<Rep(Digit, 2, 2)>> \o Str(<<":">>),
       name |-> <<"T", "v", "4", " ", "P", "l", "a", "y", " ", "S", "E">>],
      [pattern |-> Str(<<"S", "k", "y", " ", "S", "p", "o", "r", "t", "s", "+", " ", "|">>),
       name |-> <<"S", "k", "y", " ", "S", "p", "o", "r", "t", "s", "+">>],
      [pattern |-> Str(<<"S", "k", "y", " ", "T", "e", "n", "n", "i", "s", "+", " ", "|">>),
       name |-> <<"S", "k", "y", " ", "T", "e", "n", "n", "i", "s", "+">>],
      [pattern |-> Str(<<"S", "e", "t", "a", "n", "t", "a", " ", "S", "p", "o", "r", "t", "s", " ">>) \o <<Rep(Digit, 2, 2)>> \o Str(<<":">>),
       name |-> <<"S", "e", "t", "a", "n", "t", "a", " ", "S", "p", "o", "r", "t", "s">>],
      [pattern |-> Str(<<"T", "e", "n", "n", "i", "s", " ">>) \o <<Rep(Digit, 2, 2)>> \o Str(<<":">>),
       name |-> <<"T", "e", "n", "n", "i", "s">>],
      [pattern |-> Str(<<"T", "e", "n", "n", "i", "s", " ", "T", "V", " ", "|", " ", "E", "v", "e", "n", "t", " ">>) \o <<Rep(Digit, 2, 2)>>,
       name |-> <<"T", "e", "n", "n", "i", "s", " ", "T", "V">>],
      [pattern |-> Str(<<"U", "F", "C", " ">>) \o <<Rep(Digit, 2, 2)>>,
       name |-> <<"U", "F", "C">>],
      [pattern |-> Str(<<"T", "r", "i", "l", "l", "e", "r", "T", "V", " ", "E", "v", "e", "n", "t", " ">>) \o <<Rep(Digit, 2, 2)>>,
       name |-> <<"T", "r", "i", "l", "l", "e", "r", "T", "V">>],
      [pattern |-> Str(<<"M", "a", "t", "c", "h", "r", "o", "o", "m", " ", "E", "v", "e", "n", "t", " ">>) \o <<Plus(Digit)>>,
       name |-> <<"M", "a", "t", "c", "h", "r", "o", "o", "m">>],
      [pattern |-> Str(<<"L", "I", "V", "E", " ", "E", "V", "E", "N", "T", " ">>) \o <<Rep(Digit, 2, 2)>>,
       name |-> <<"L", "I", "V", "E", " ", "E", "V", "E", "N", "T">>],
      [pattern |-> Str(<<"D", "i", "r", "t", "v", "i", "s", "i", "o", "n", ":", "E", "V", "E", "N", "T", " ">>) \o <<Rep(Digit, 2, 2)>>,
       name |-> <<"D", "i", "r", "t", "v", "i", "s", "i", "o", "n">>],
      [pattern |-> Str(<<"C", "l", "u", "b", "b", "e", "r", " ">>) \o <<Rep(Digit, 2, 2)>>,
       name |-> <<"C", "l", "u", "b", "b", "e", "r">>],
      [pattern |-> Str(<<"N", "C", "A", "A", " ", "S", "o", "f", "t", "b", "a", "l", "l", " ">>) \o <<Rep(Digit, 2, 2)>> \o Str(<<":">>),
       name |-> <<"N", "C", "A", "A", " ", "S", "o", "f", "t", "b", "a", "l", "l">>]
  >>

FLUFF_TOKENS ==
  { <<"1", "0", "8", "0", "P">>,
    <<"2", "1", "6", "0", "P">>,
    <<"4", "K">>,
    <<"A", "A", "C">>,
    <<"A", "C", "3">>,
    <<"A", "L", "T">>,
    <<"B", "A", "C", "K", "U", "P">>,
    <<"E", "A", "C", "3">>,
    <<"E", "N">>,
    <<"E", "S">>,
    <<"E", "V", "E", "N", "T">>,
    <<"F", "E", "E", "D">>,
    <<"F", "H", "D">>,
    <<"H", "2", "6", "4">>,
    <<"H", "2", "6", "5">>,
    <<"H", "D">>,
    <<"H", "D", "R">>,
    <<"H", "E", "V", "C">>,
    <<"L", "I", "V", "E">>,
    <<"M", "U", "L", "T", "I">>,
    <<"S", "D">>,
    <<"S", "T", "R", "E", "A", "M">>,
    <<"T", "E", "S", "T">>,
    <<"U", "H", "D">> }

\* The pattern with \s* appended, compiled case-insensitively.
build_channel_regex(pattern) == Compile(pattern \o <<Star(Space)>>)

CHANNEL_PATTERNS ==
  [i \in 1..Len(ALLOWED_CHANNEL_PATTERNS) |->
     [name |-> ALLOWED_CHANNEL_PATTERNS[i].name,
      rx |-> build_channel_regex(ALLOWED_CHANNEL_PATTERNS[i].pattern)]]

\* re.sub(r"\s+:\s*", ":", s), from offset pos on.
RECURSIVE SubColon(_, _)
SubColon(s, pos) ==
  LET starts == { p \in pos..(Len(s) - 1) :
                    LET w == RunLen(s, p, Plus(Space), 0)
                    IN  w >= 1 /\ p + w < Len(s) /\ s[p + w + 1] = ":" }
  IN  IF starts = {} THEN SliceFrom(s, pos)
      ELSE LET p == Smallest(starts)
               w == RunLen(s, p, Plus(Space), 0)
           IN  SubSeq(s, pos + 1, p) \o <<":">> \o
               SubColon(s, p + w + 1 + RunLen(s, p + w + 1, Star(Space), 0))

\* The name as the patterns see it (lines 178-180).
NormalizeName(name) == SubColon(strip(name), 0)

\* The loop of lines 181-185 keeping the last entry that matches.
LastMatch(n, i) ==
  LET hits == { j \in i..Len(CHANNEL_PATTERNS) :
                  rx_match(CHANNEL_PATTERNS[j].rx, n) # NoneMatch }
  IN  IF hits = {}
      THEN [ok |-> FALSE, family_name |-> NoneStr, m |-> NoneMatch]
      ELSE [ok |-> TRUE,
            family_name |-> CHANNEL_PATTERNS[Largest(hits)].name,
            m |-> rx_match(CHANNEL_PATTERNS[Largest(hits)].rx, n)]

\* The loop of lines 181-185 from entry i on: it returns at the first entry
\* whose regex matches, and falls through to line 185 when none does.
FirstMatch(n, i) ==
  LET hits == { j \in i..Len(CHANNEL_PATTERNS) :
                  rx_match(CHANNEL_PATTERNS[j].rx, n) # NoneMatch }
  IN  IF hits = {}
      THEN [ok |-> FALSE, family_name |-> NoneStr, m |-> NoneMatch]
      ELSE [ok |-> TRUE,
            family_name |-> CHANNEL_PATTERNS[Smallest(hits)].name,
            m |-> rx_match(CHANNEL_PATTERNS[Smallest(hits)].rx, n)]

match_prefix_and_shell(name) == FirstMatch(NormalizeName(name), 1)

(***************************************************************************)
(* Classification.                                                         *)
(***************************************************************************)
\* Empty in the source: no family has an exception set.
\* The table with the entry that line 199 has commented out.
SpecialGenericPeacockStudio ==
  <<"P", "e", "a", "c", "o", "c", "k">> :> { <<"S", "T", "U", "D", "I", "O">> }

SPECIAL_GENERIC_EXCEPTIONS == [f \in {} |-> {}]

\* re.sub(r"\s+", " ", s)
RECURSIVE CollapseSpace(_, _)
CollapseSpace(s, pos) ==
  LET starts == { p \in pos..(Len(s) - 1) : s[p + 1] \in Space }
  IN  IF starts = {} THEN SliceFrom(s, pos)
      ELSE SubSeq(s, pos + 1, Smallest(starts)) \o <<" ">> \o
           CollapseSpace(s, Smallest(starts)
                              + RunLen(s, Smallest(starts), Plus(Space), 0))

\* [A-Z0-9]
AlphaNum == Letter \cup Digit

\* [t for t in re.split(r"[^A-Z0-9]+", s) if t], from offset pos on: the
\* runs of [A-Z0-9] in s.
RECURSIVE SplitTokens(_, _)
SplitTokens(s, pos) ==
  LET starts == { p \in pos..(Len(s) - 1) : s[p + 1] \in AlphaNum }
  IN  IF starts = {} THEN <<>>
      ELSE LET p == Smallest(starts)
               n == Smallest({ m \in 1..(Len(s) - p) :
                                 m = Len(s) - p \/ s[p + m + 1] \notin AlphaNum })
           IN  <<SubSeq(s, p + 1, p + n)>> \o SplitTokens(s, p + n)

\* Line 511: the payload consists only of fluff tokens.
AllFluff(tokens) ==
  tokens # <<>> /\ \A i \in 1..Len(tokens) : tokens[i] \in FLUFF_TOKENS

\* Line 516 comparing with the label as written, not upper-cased.
AmbiguousFamilyOnlyAsWritten(payload_upper, matched_family) ==
  matched_family # NoneStr /\ payload_upper = matched_family

\* Line 516: the payload is the family label and nothing else.
AmbiguousFamilyOnly(payload_upper, matched_family) ==
  matched_family # NoneStr /\ payload_upper = upper(matched_family)

ChannelClassification(classification, payload, shell_end, tokens, warnings) ==
  [classification |-> classification, payload |-> payload,
   shell_end |-> shell_end, tokens |-> tokens, warnings |-> warnings]

classify_channel(name, matched_family, match_obj) ==
  IF match_obj = NoneMatch
  THEN ChannelClassification("generic", <<>>, 0, <<>>, <<"no_pattern_match">>)
  ELSE
    LET payload == strip(SliceFrom(name, match_obj.end))
        shell_end == match_obj.end
        payload_upper == upper(strip(CollapseSpace(payload, 0)))
        tokens == SplitTokens(payload_upper, 0)
    IN  IF payload = <<>>
        THEN ChannelClassification("generic", <<>>, shell_end, <<>>, <<"empty_payload">>)
        ELSE IF /\ matched_family \in DOMAIN SPECIAL_GENERIC_EXCEPTIONS
                /\ payload_upper \in SPECIAL_GENERIC_EXCEPTIONS[matched_family]
        THEN ChannelClassification("generic", payload, shell_end, <<>>,
                                   <<"special_generic_exception">>)
        ELSE IF AllFluff(tokens)
        THEN ChannelClassification("generic", payload, shell_end, tokens,
                                   <<"all_fluff_tokens">>)
        ELSE ChannelClassification("event", payload, shell_end, tokens,
               IF AmbiguousFamilyOnly(payload_upper, matched_family)
               THEN <<"ambiguous_family_only">> ELSE <<>>)

(***************************************************************************)
(* Programme building.                                                     *)
(***************************************************************************)
Min(a, b) == IF a <= b THEN a ELSE b

\* A title: the fixed filler text, or one of main's three formats around the
\* payload (at: the event time the "Airing Next ... @" format prints).
Title(kind, payload, at) == [kind |-> kind, payload |-> payload, at |-> at]

NoProgrammingToday == Title("No Programming Today.", <<>>, 0)

\* programs.setdefault(cid, []).append({...})
add_block(progs, cid, title, start_local, end_local) ==
  LET blk == [title |-> title, start |-> start_local, end |-> end_local, desc |-> ""]
  IN  IF cid \in DOMAIN progs
      THEN [progs EXCEPT ![cid] = Append(@, blk)]
      ELSE progs @@ (cid :> <<blk>>)

\* fill_no_programming leaving the loop one block early.
RECURSIVE fill_stops_early(_, _, _, _, _)
fill_stops_early(progs, cid, cur, day_end, block_minutes) ==
  IF cur + block_minutes < day_end
  THEN fill_stops_early(add_block(progs, cid, NoProgrammingToday, cur,
                                  Min(cur + block_minutes, day_end)),
                        cid, Min(cur + block_minutes, day_end), day_end, block_minutes)
  ELSE progs

\* The while loop of fill_no_programming, cur being its cursor.
RECURSIVE fill_no_programming(_, _, _, _, _)
fill_no_programming(progs, cid, cur, day_end, block_minutes) ==
  IF cur < day_end
  THEN LET nxt == Min(cur + block_minutes, day_end)
       IN  fill_no_programming(add_block(progs, cid, NoProgrammingToday, cur, nxt),
                               cid, nxt, day_end, block_minutes)
  ELSE progs

\* Line 538 without the min: the cursor moves a whole block every time.
nxt_unclamped(cur, day_end, block_minutes) == cur + block_minutes

\* Line 538: where the block starting at cur ends.
nxt(cur, day_end, block_minutes) == Min(cur + block_minutes, day_end)

\* sorted(progs, key=start): a stable insertion sort.
RECURSIVE InsertByStart(_, _)
InsertByStart(sorted, p) ==
  IF sorted = <<>> THEN <<p>>
  ELSE IF sorted[Len(sorted)].start <= p.start THEN Append(sorted, p)
  ELSE Append(InsertByStart(SubSeq(sorted, 1, Len(sorted) - 1), p), sorted[Len(sorted)])

\* sorted(), were it to leave the list in the order it has.
Unsorted(progs) == progs

RECURSIVE SortedByStart(_)
SortedByStart(progs) ==
  IF progs = <<>> THEN <<>>
  ELSE InsertByStart(SortedByStart(SubSeq(progs, 1, Len(progs) - 1)), progs[Len(progs)])

\* The warnings validate_schedule prints for the pair at index k of the
\* sorted list, and for the pairs after it.
RECURSIVE ValidatePairs(_, _, _)
ValidatePairs(cid, sorted_progs, k) ==
  IF k > Len(sorted_progs) - 1 THEN <<>>
  ELSE LET current == sorted_progs[k]
           next_prog == sorted_progs[k + 1]
       IN  (IF current.end > next_prog.start
            THEN <<[cid |-> cid, warn |-> "overlap"]>> ELSE <<>>)
           \o (IF current.end - current.start > MaxBlockHours * 60
               THEN <<[cid |-> cid, warn |-> "oversized"]>> ELSE <<>>)
           \o ValidatePairs(cid, sorted_progs, k + 1)

validate_schedule(progs, cid) ==
  IF cid \notin DOMAIN progs \/ progs[cid] = <<>> THEN <<>>
  ELSE ValidatePairs(cid, SortedByStart(progs[cid]), 1)

(***************************************************************************)
(* Time parsing.                                                           *)
(***************************************************************************)
\* The end offset of every item of rx, matched from item k at offset pos of
\* s (greedy, backtracking), or NoEnds.
NoEnds == <<-1>>

RECURSIVE MatchEnds(_, _, _, _)
RECURSIVE BacktrackEnds(_, _, _, _, _)
MatchEnds(rx, k, s, pos) ==
  IF k > Len(rx) THEN <<>>
  ELSE BacktrackEnds(rx, k, s, pos, RunLen(s, pos, rx[k], 0))

BacktrackEnds(rx, k, s, pos, n) ==
  IF n < rx[k].lo THEN NoEnds
  ELSE LET r == MatchEnds(rx, k + 1, s, pos + n)
       IN  IF r # NoEnds THEN <<pos + n>> \o r
           ELSE BacktrackEnds(rx, k, s, pos, n - 1)

\* rx.search(s) from offset pos on: the leftmost match, as its start offset
\* and the end offsets of its items; start = -1 when there is none.
rx_search(rx, s, pos) ==
  LET starts == { p \in pos..Len(s) : MatchEnds(rx, 1, s, p) # NoEnds }
  IN  IF starts = {} THEN [start |-> -1, ends |-> NoEnds]
      ELSE [start |-> Smallest(starts),
            ends |-> MatchEnds(rx, 1, s, Smallest(starts))]

\* The text item k of match m took in s.
Group(s, m, k) ==
  SubSeq(s, (IF k = 1 THEN m.start ELSE m.ends[k - 1]) + 1, m.ends[k])

\* (AM|PM) is written as the two items [AP] and M.
AmPm == <<Rep({"A", "P"}, 1, 1), Lit("M")>>

EVENT_TIME_RXES ==
  << \* ([A-Za-z]{3})\s+(\d{1,2})\s+(\d{1,2}):(\d{2})\s*(AM|PM)\s*([A-Za-z]{1,4})
     <<Rep(Letter, 3, 3), Plus(Space), Rep(Digit, 1, 2), Plus(Space),
       Rep(Digit, 1, 2), Lit(":"), Rep(Digit, 2, 2), Star(Space)>>
       \o AmPm \o <<Star(Space), Rep(Letter, 1, 4)>>,
     \* (\d{1,2}):(\d{2})\s*(AM|PM)\s*([A-Za-z]{1,4})
     <<Rep(Digit, 1, 2), Lit(":"), Rep(Digit, 2, 2), Star(Space)>>
       \o AmPm \o <<Star(Space), Rep(Letter, 1, 4)>>,
     \* (\d{1,2})/(\d{1,2})\s+(\d{1,2}):(\d{2})\s*([A-Za-z]{1,4})
     <<Rep(Digit, 1, 2), Lit("/"), Rep(Digit, 1, 2), Plus(Space),
       Rep(Digit, 1, 2), Lit(":"), Rep(Digit, 2, 2), Star(Space), Rep(Letter, 1, 4)>>,
     \* (\d{1,2}):(\d{2})\s*([A-Za-z]{1,4})
     <<Rep(Digit, 1, 2), Lit(":"), Rep(Digit, 2, 2), Star(Space), Rep(Letter, 1, 4)>>,
     \* (\d{1,2})\s*(AM|PM)\s*([A-Za-z]{1,4})
     <<Rep(Digit, 1, 2), Star(Space)>> \o AmPm \o <<Star(Space), Rep(Letter, 1, 4)>>
  >>

DigitSeq == <<"0", "1", "2", "3", "4", "5", "6", "7", "8", "9">>

DigitVal(c) == (CHOOSE k \in 1..10 : DigitSeq[k] = c) - 1

\* int(s) of a digit string
RECURSIVE int(_)
int(s) == IF s = <<>> THEN 0 ELSE 10 * int(SubSeq(s, 1, Len(s) - 1)) + DigitVal(s[Len(s)])

\* MONTHS.get(abbr.lower()): 1..12, or 0 for None.  Keys are compared
\* upper-cased here, which is the same test on letters.
MonthAbbrs ==
  << <<"J","A","N">>, <<"F","E","B">>, <<"M","A","R">>, <<"A","P","R">>,
     <<"M","A","Y">>, <<"J","U","N">>, <<"J","U","L">>, <<"A","U","G">>,
     <<"S","E","P">>, <<"O","C","T">>, <<"N","O","V">>, <<"D","E","C">> >>

MONTHS(abbr) ==
  IF \E k \in 1..12 : MonthAbbrs[k] = upper(abbr)
  THEN CHOOSE k \in 1..12 : MonthAbbrs[k] = upper(abbr)
  ELSE 0

\* A zone: its standard UTC offset in minutes and its daylight-saving rule.
Zone(std, rule) == [std |-> std, rule |-> rule]

NewYork == Zone(-300, "US")
Chicago == Zone(-360, "US")
Denver == Zone(-420, "US")
LosAngeles == Zone(-480, "US")
UTC == Zone(0, "none")
Berlin == Zone(60, "EU")
London == Zone(0, "EU")
Lisbon == Zone(0, "EU")

TZ_TO_IANA ==
  (<<"E","T">> :> NewYork) @@ (<<"E","S","T">> :> NewYork) @@ (<<"E","D","T">> :> NewYork) @@
  (<<"C","T">> :> Chicago) @@ (<<"C","S","T">> :> Chicago) @@ (<<"C","D","T">> :> Chicago) @@
  (<<"M","T">> :> Denver) @@ (<<"M","S","T">> :> Denver) @@ (<<"M","D","T">> :> Denver) @@
  (<<"P","T">> :> LosAngeles) @@ (<<"P","S","T">> :> LosAngeles) @@ (<<"P","D","T">> :> LosAngeles) @@
  (<<"U","T","C">> :> UTC) @@ (<<"G","M","T">> :> UTC) @@
  (<<"C","E","T">> :> Berlin) @@ (<<"C","E","S","T">> :> Berlin) @@
  (<<"B","S","T">> :> London) @@ (<<"W","E","S","T">> :> Lisbon) @@ (<<"W","E","T">> :> Lisbon)

\* _tzinfo_for_abbr, were an unknown abbreviation to mean UTC.
_tzinfo_for_abbr_utc(abbr) ==
  LET key == upper(abbr)
  IN  IF key \in DOMAIN TZ_TO_IANA THEN TZ_TO_IANA[key] ELSE UTC

_tzinfo_for_abbr(abbr) ==
  LET key == upper(abbr)
  IN  IF key \in DOMAIN TZ_TO_IANA THEN TZ_TO_IANA[key] ELSE NewYork

\* _fix_12hour_time without the case of hour 12.
_fix_12hour_time_no_pivot(hour, ampm) ==
  IF upper(ampm) = <<"P", "M">> THEN hour + 12 ELSE hour

_fix_12hour_time(hour, ampm) ==
  LET is_pm == upper(ampm) = <<"P", "M">>
  IN  IF hour = 12 THEN (IF is_pm THEN 12 ELSE 0)
      ELSE (IF is_pm THEN hour + 12 ELSE hour)

(***************************************************************************)
(* The calendar and the zones' offsets.                                    *)
(***************************************************************************)
IsLeap(y) == (y % 4 = 0 /\ y % 100 # 0) \/ y % 400 = 0

DaysInMonth(y, m) ==
  IF m = 2 THEN (IF IsLeap(y) THEN 29 ELSE 28)
  ELSE IF m \in {4, 6, 9, 11} THEN 30 ELSE 31

RECURSIVE DaysBeforeMonth(_, _)
DaysBeforeMonth(y, m) ==
  IF m = 1 THEN 0 ELSE DaysBeforeMonth(y, m - 1) + DaysInMonth(y, m - 1)

\* date(y, m, d).toordinal(): day 1 is 0001-01-01, a Monday.
Ordinal(y, m, d) ==
  LET p == y - 1
  IN  p * 365 + (p \div 4) - (p \div 100) + (p \div 400) + DaysBeforeMonth(y, m) + d

\* The day of month of the n-th Sunday of month m (n = 0: the last one).
NthSunday(y, m, n) ==
  LET first == CHOOSE d \in 1..7 : Ordinal(y, m, d) % 7 = 0
  IN  IF n > 0 THEN first + 7 * (n - 1)
      ELSE CHOOSE d \in (DaysInMonth(y, m) - 6)..DaysInMonth(y, m) :
             Ordinal(y, m, d) % 7 = 0

\* Instants and wall-clock times are in minutes, Ordinal * 1440 + minute of
\* the day.  The zone's daylight-saving period of year y, in UTC.
DstStartUtc(z, y) ==
  IF z.rule = "US" THEN Ordinal(y, 3, NthSunday(y, 3, 2)) * 1440 + 120 - z.std
  ELSE Ordinal(y, 3, NthSunday(y, 3, 0)) * 1440 + 60

DstEndUtc(z, y) ==
  IF z.rule = "US" THEN Ordinal(y, 11, NthSunday(y, 11, 1)) * 1440 + 120 - (z.std + 60)
  ELSE Ordinal(y, 10, NthSunday(y, 10, 0)) * 1440 + 60

\* utcoffset(), were the zones never to change their clocks.
OffsetOfWallStandard(z, y, wall) == z.std

\* utcoffset() of wall-clock time wall of year y (fold = 0: a time the clocks
\* skip takes the offset before the change, a repeated one the first).
OffsetOfWall(z, y, wall) ==
  IF /\ z.rule # "none"
     /\ DstStartUtc(z, y) + z.std + 60 <= wall
     /\ wall < DstEndUtc(z, y) + z.std + 60
  THEN z.std + 60 ELSE z.std

\* The offset in force at instant utc, which lies in year y or within a day of it.
OffsetOfUtc(z, y, utc) ==
  IF z.rule # "none" /\ DstStartUtc(z, y) <= utc /\ utc < DstEndUtc(z, y)
  THEN z.std + 60 ELSE z.std

\* dt.datetime(year, month, day, hour, minute, tzinfo=src); ok = FALSE where
\* the constructor raises ValueError.
datetime(year, month, day, hour, minute, src) ==
  [ok |-> /\ month \in 1..12
          /\ day >= 1 /\ day <= DaysInMonth(year, month)
          /\ hour \in 0..23
          /\ minute \in 0..59,
   year |-> year, month |-> month, day |-> day, hour |-> hour, minute |-> minute,
   tzinfo |-> src]

\* parsed_dt.replace(year=year), which raises ValueError for a Feb 29 that
\* the new year does not have.
replace_year(parsed_dt, year) ==
  datetime(year, parsed_dt.month, parsed_dt.day, parsed_dt.hour, parsed_dt.minute,
           parsed_dt.tzinfo)

_handle_year_rollover(parsed_dt, date_context) ==
  LET days_diff == Ordinal(date_context.year, date_context.month, date_context.day)
                   - Ordinal(parsed_dt.year, parsed_dt.month, parsed_dt.day)
  IN  IF days_diff > RolloverDays
      THEN replace_year(parsed_dt, parsed_dt.year + 1)
      ELSE parsed_dt

\* A resolved time: minutes of wall-clock time in the output zone, counted
\* from 00:00 of date_context.  NoTime is try_parse_time's None.
NoTime == [some |-> FALSE, t |-> 0]

\* astimezone, were it to keep the wall-clock time of the source zone.
astimezone_keeps_wall(local, central, date_context) ==
  [some |-> TRUE,
   t |-> Ordinal(local.year, local.month, local.day) * 1440
         + local.hour * 60 + local.minute
         - Ordinal(date_context.year, date_context.month, date_context.day) * 1440]

\* local.astimezone(central), as a resolved time.  A datetime already in
\* the zone asked for is returned as it is, without conversion.
astimezone(local, central, date_context) ==
  LET wall == Ordinal(local.year, local.month, local.day) * 1440
              + local.hour * 60 + local.minute
      utc == wall - OffsetOfWall(local.tzinfo, local.year, wall)
  IN  [some |-> TRUE,
       t |-> (IF local.tzinfo = central THEN wall
              ELSE utc + OffsetOfUtc(central, local.year, utc))
             - Ordinal(date_context.year, date_context.month, date_context.day) * 1440]

\* The body of the try statement for grammar r (1..5) and its match m:
\* NoTime where the code continues with the next grammar.
ParseMatch(r, text, m, year, central, date_context) ==
  LET rolled(local) ==
        IF ~local.ok THEN NoTime
        ELSE LET l2 == _handle_year_rollover(local, date_context)
             IN  IF l2.ok THEN astimezone(l2, central, date_context) ELSE NoTime
      anchored(hour, minute, tz_abbr) ==
        LET local == datetime(date_context.year, date_context.month, date_context.day,
                              hour, minute, _tzinfo_for_abbr(tz_abbr))
        IN  IF local.ok THEN astimezone(local, central, date_context) ELSE NoTime
  IN  CASE r = 1 ->
             LET mon == MONTHS(Group(text, m, 1))
             IN  IF mon = 0 THEN NoTime
                 ELSE rolled(datetime(year, mon, int(Group(text, m, 3)),
                        _fix_12hour_time(int(Group(text, m, 5)),
                                         Group(text, m, 9) \o Group(text, m, 10)),
                        int(Group(text, m, 7)),
                        _tzinfo_for_abbr(Group(text, m, 12))))
        [] r = 2 ->
             anchored(_fix_12hour_time(int(Group(text, m, 1)),
                                       Group(text, m, 5) \o Group(text, m, 6)),
                      int(Group(text, m, 3)), Group(text, m, 8))
        [] r = 3 ->
             rolled(datetime(year, int(Group(text, m, 1)), int(Group(text, m, 3)),
                             int(Group(text, m, 5)), int(Group(text, m, 7)),
                             _tzinfo_for_abbr(Group(text, m, 9))))
        [] r = 4 ->
             anchored(int(Group(text, m, 1)), int(Group(text, m, 3)), Group(text, m, 5))
        [] OTHER ->
             anchored(_fix_12hour_time(int(Group(text, m, 1)),
                                       Group(text, m, 3) \o Group(text, m, 4)),
                      0, Group(text, m, 6))

\* The loop over EVENT_TIME_RXES, were it to return at the first grammar that
\* matches, parsed or not.
RECURSIVE TryGrammarsFirstMatchOnly(_, _, _, _, _)
TryGrammarsFirstMatchOnly(text, r, year, central, date_context) ==
  IF r > Len(EVENT_TIME_RXES) THEN NoTime
  ELSE LET m == rx_search(EVENT_TIME_RXES[r], text, 0)
       IN  IF m.start # -1
           THEN ParseMatch(r, text, m, year, central, date_context)
           ELSE TryGrammarsFirstMatchOnly(text, r + 1, year, central, date_context)

\* The loop over EVENT_TIME_RXES from grammar r on.
RECURSIVE TryGrammars(_, _, _, _, _)
TryGrammars(text, r, year, central, date_context) ==
  IF r > Len(EVENT_TIME_RXES) THEN NoTime
  ELSE LET m == rx_search(EVENT_TIME_RXES[r], text, 0)
           res == IF m.start = -1 THEN NoTime
                  ELSE ParseMatch(r, text, m, year, central, date_context)
       IN  IF res.some THEN res
           ELSE TryGrammars(text, r + 1, year, central, date_context)

try_parse_time(payload, year, central, date_context) ==
  TryGrammars(strip(payload), 1, year, central, date_context)

(***************************************************************************)
(* main(): the state of one run.                                           *)
(***************************************************************************)
VARIABLES
  args,             \* event_duration_min, max_event_duration_min
  tgt_date,         \* the target date
  entries,          \* the de-duplicated entries: channel id and display name
  pc,               \* where main is
  idx,              \* the index of the loop main is in
  processed,        \* the entries that match a pattern
  match_data,       \* their (family_name, match_obj)
  programs,         \* channel id -> list of blocks
  stats,
  classifications,
  event_start_ct,   \* the resolved time of the channel being built
  stderr,           \* the warnings validate_schedule has printed
  fill              \* the locals of the fill_no_programming call under way

vars == <<args, tgt_date, entries, pc, idx, processed, match_data, programs,
          stats, classifications, event_start_ct, stderr, fill>>

central == Chicago

day_start == 0

day_end == day_start + DayMinutes

\* e.tvg_name or e.display_name, stripped
disp(e) == strip(e.name)

\* No call of fill_no_programming is followed step by step.
NoFill == [cid |-> 0, day_start |-> 0, day_end |-> 0, block_minutes |-> 0, cur |-> 0]

ZeroStats ==
  [generic |-> 0, event |-> 0, event_with_time |-> 0, event_tba |-> 0,
   event_wrong_date |-> 0, ambiguous |-> 0]

\* The state main is in when the entries are read and de-duplicated.
Start(a, d, es) ==
  /\ args = a
  /\ tgt_date = d
  /\ entries = es
  /\ pc = "filter"
  /\ idx = 1
  /\ processed = <<>>
  /\ match_data = <<>>
  /\ programs = <<>>
  /\ stats = ZeroStats
  /\ classifications = <<>>
  /\ event_start_ct = NoTime
  /\ stderr = <<>>
  /\ fill = NoFill

\* Lines 697-702, an entry that matches.
FilterKeep ==
  /\ pc = "filter"
  /\ idx <= Len(entries)
  /\ LET r == match_prefix_and_shell(disp(entries[idx]))
     IN  /\ r.ok
         /\ processed' = Append(processed, entries[idx])
         /\ match_data' = Append(match_data, [family_name |-> r.family_name, m |-> r.m])
  /\ idx' = idx + 1
  /\ UNCHANGED <<fill, args, tgt_date, entries, pc, programs, stats, classifications,
                 event_start_ct, stderr>>

\* Lines 697-702, an entry that matches no pattern.
FilterDrop ==
  /\ pc = "filter"
  /\ idx <= Len(entries)
  /\ ~match_prefix_and_shell(disp(entries[idx])).ok
  /\ idx' = idx + 1
  /\ UNCHANGED <<fill, args, tgt_date, entries, pc, processed, match_data, programs, stats,
                 classifications, event_start_ct, stderr>>

\* Lines 704-718.
FilterDone ==
  /\ pc = "filter"
  /\ idx > Len(entries)
  /\ pc' = "build"
  /\ idx' = 1
  /\ UNCHANGED <<fill, args, tgt_date, entries, processed, match_data, programs, stats,
                 classifications, event_start_ct, stderr>>

\* Lines 721-729.
Classify ==
  /\ pc = "build"
  /\ idx <= Len(processed)
  /\ LET classif == classify_channel(disp(processed[idx]), match_data[idx].family_name,
                                     match_data[idx].m)
     IN  /\ classifications' = Append(classifications, classif)
         /\ stats' = IF \E k \in 1..Len(classif.warnings) :
                          classif.warnings[k] = "ambiguous_family_only"
                     THEN [stats EXCEPT !.ambiguous = @ + 1]
                     ELSE stats
  /\ pc' = "classified"
  /\ UNCHANGED <<fill, args, tgt_date, entries, idx, processed, match_data, programs,
                 event_start_ct, stderr>>

\* Lines 731-734.
ScheduleGeneric ==
  /\ pc = "classified"
  /\ classifications[idx].classification = "generic"
  /\ stats' = [stats EXCEPT !.generic = @ + 1]
  /\ programs' = fill_no_programming(programs, processed[idx].cid, day_start, day_end,
                                     FillBlockMinutes)
  /\ pc' = "build"
  /\ idx' = idx + 1
  /\ UNCHANGED <<fill, args, tgt_date, entries, processed, match_data, classifications,
                 event_start_ct, stderr>>

\* Lines 736-739.
ParseTime ==
  /\ pc = "classified"
  /\ classifications[idx].classification # "generic"
  /\ stats' = [stats EXCEPT !.event = @ + 1]
  /\ event_start_ct' = try_parse_time(classifications[idx].payload, tgt_date.year,
                                      central, tgt_date)
  /\ pc' = "parsed"
  /\ UNCHANGED <<fill, args, tgt_date, entries, idx, processed, match_data, programs,
                 classifications, stderr>>

\* The date test, were it to take every later date for the target date.
OnTargetDateOrLater(t) == day_start <= t

\* event_start_ct.date() == tgt_date
OnTargetDate(t) == day_start <= t /\ t < day_end

\* Lines 743-748, were they to count the event as one without a time.
ScheduleWrongDateCountedTBA ==
  /\ pc = "parsed"
  /\ event_start_ct.some
  /\ ~OnTargetDate(event_start_ct.t)
  /\ stats' = [stats EXCEPT !.event_tba = @ + 1]
  /\ programs' = add_block(programs, processed[idx].cid,
                           Title("Airing Next: @ CT", strip(classifications[idx].payload),
                                 event_start_ct.t),
                           day_start, day_end)
  /\ pc' = "build"
  /\ idx' = idx + 1
  /\ UNCHANGED <<fill, args, tgt_date, entries, processed, match_data, classifications,
                 event_start_ct, stderr>>

\* Lines 743-748.
ScheduleWrongDate ==
  /\ pc = "parsed"
  /\ event_start_ct.some
  /\ ~OnTargetDate(event_start_ct.t)
  /\ stats' = [stats EXCEPT !.event_wrong_date = @ + 1]
  /\ programs' = add_block(programs, processed[idx].cid,
                           Title("Airing Next: @ CT", strip(classifications[idx].payload),
                                 event_start_ct.t),
                           day_start, day_end)
  /\ pc' = "build"
  /\ idx' = idx + 1
  /\ UNCHANGED <<fill, args, tgt_date, entries, processed, match_data, classifications,
                 event_start_ct, stderr>>

\* TodayBlocks without the cap of the live block at day_end.
TodayBlocksUncapped(progs, cid, payload, t, a) ==
  LET airing == Title("Airing Next: @ CT", strip(payload), t)
      p1 == IF t > day_start THEN add_block(progs, cid, airing, day_start, t) ELSE progs
      event_end == t + Min(a.event_duration_min, a.max_event_duration_min)
      p2 == add_block(p1, cid, Title("Live", strip(payload), 0), t, event_end)
  IN  IF event_end < day_end
      THEN fill_no_programming(p2, cid, event_end, day_end, FillBlockMinutes)
      ELSE p2

\* TodayBlocks without the cap of the duration at max_event_duration_min.
TodayBlocksIgnoresMax(progs, cid, payload, t, a) ==
  LET airing == Title("Airing Next: @ CT", strip(payload), t)
      p1 == IF t > day_start THEN add_block(progs, cid, airing, day_start, t) ELSE progs
      event_end == Min(t + a.event_duration_min, day_end)
      p2 == add_block(p1, cid, Title("Live", strip(payload), 0), t, event_end)
  IN  IF event_end < day_end
      THEN fill_no_programming(p2, cid, event_end, day_end, FillBlockMinutes)
      ELSE p2

\* Lines 750-769: the blocks of an event of the target date.
TodayBlocks(progs, cid, payload, t, a) ==
  LET airing == Title("Airing Next: @ CT", strip(payload), t)
      p1 == IF t > day_start THEN add_block(progs, cid, airing, day_start, t) ELSE progs
      event_duration == Min(a.event_duration_min, a.max_event_duration_min)
      event_end == Min(t + event_duration, day_end)
      p2 == add_block(p1, cid, Title("Live", strip(payload), 0), t, event_end)
  IN  IF event_end < day_end
      THEN fill_no_programming(p2, cid, event_end, day_end, FillBlockMinutes)
      ELSE p2

ScheduleToday ==
  /\ pc = "parsed"
  /\ event_start_ct.some
  /\ OnTargetDate(event_start_ct.t)
  /\ stats' = [stats EXCEPT !.event_with_time = @ + 1]
  /\ programs' = TodayBlocks(programs, processed[idx].cid, classifications[idx].payload,
                             event_start_ct.t, args)
  /\ pc' = "build"
  /\ idx' = idx + 1
  /\ UNCHANGED <<fill, args, tgt_date, entries, processed, match_data, classifications,
                 event_start_ct, stderr>>

\* Lines 771-775.
ScheduleTBA ==
  /\ pc = "parsed"
  /\ ~event_start_ct.some
  /\ stats' = [stats EXCEPT !.event_tba = @ + 1]
  /\ programs' = add_block(programs, processed[idx].cid,
                           Title("Airing Next: (Time TBA)",
                                 strip(classifications[idx].payload), 0),
                           day_start, day_end)
  /\ pc' = "build"
  /\ idx' = idx + 1
  /\ UNCHANGED <<fill, args, tgt_date, entries, processed, match_data, classifications,
                 event_start_ct, stderr>>

\* The build loop ends.
BuildDone ==
  /\ pc = "build"
  /\ idx > Len(processed)
  /\ pc' = "validate"
  /\ idx' = 1
  /\ UNCHANGED <<fill, args, tgt_date, entries, processed, match_data, programs, stats,
                 classifications, event_start_ct, stderr>>

\* Lines 779-780, one channel.
Validate ==
  /\ pc = "validate"
  /\ idx <= Len(processed)
  /\ stderr' = stderr \o validate_schedule(programs, processed[idx].cid)
  /\ idx' = idx + 1
  /\ UNCHANGED <<fill, args, tgt_date, entries, pc, processed, match_data, programs, stats,
                 classifications, event_start_ct>>

ValidateDone ==
  /\ pc = "validate"
  /\ idx > Len(processed)
  /\ pc' = "done"
  /\ UNCHANGED <<fill, args, tgt_date, entries, idx, processed, match_data, programs, stats,
                 classifications, event_start_ct, stderr>>

TestNames ==
  { <<"N", "C", "A", "A", "F", " ", "0", "3", " ", ":">>,
    <<"N", "B", "A", " ", "0", "5", ":">>,
    <<"M", "L", "B", " ", "1", "0", ":", " ">>,
    <<"N", "C", "A", "A", "F", " ", "1", ":">>,
    <<"N", "C", "A", "A", "F", " ", "0", "1", ":">>,
    <<"N", "C", "A", "A", "F", " ", "1", "0", "0", ":">>,
    <<"N", "C", "A", "A", "F", " ", "1", "0", "0", "0", ":">>,
    <<"N", "C", "A", "A", "F", " ", "G", "a", "m", "e">>,
    <<"M", "L", "S", " ", "1", "0">>,
    <<"M", "L", "S", " ", "0", "5", ":">>,
    <<"M", "L", "S", " ", "0", "1", " ", ":", " ", "G", "a", "m", "e">>,
    <<"M", "L", "S", " ", "N", "E", "X", "T", " ", "P", "R", "O", " ", "0", "1">>,
    <<"G", "A", "A", "G", "O", " ", ":", " ", "G", "A", "M", "E", " ", "0", "1">>,
    <<"G", "A", "A", "G", "O", ":", "G", "A", "M", "E", " ", "0", "1">>,
    <<"G", "A", "A", "G", "O", ":", " ", "G", "A", "M", "E", " ", "0", "1">>,
    <<"G", "A", "A", "G", "O", " ", ":", " ", "G", "A", "M", "E", " ", "1", "0">>,
    <<"D", "i", "r", "t", "v", "i", "s", "i", "o", "n", " ", ":", " ", "E", "V", "E", "N", "T", " ", "0", "1">>,
    <<"D", "i", "r", "t", "v", "i", "s", "i", "o", "n", ":", "E", "V", "E", "N", "T", " ", "0", "1">>,
    <<"N", "F", "L", " ", "0", "1", ":", " ", "G", "a", "m", "e">>,
    <<"N", "F", "L", " ", "0", "1", " ", ":">>,
    <<"N", "F", "L", " ", "G", "a", "m", "e", " ", "P", "a", "s", "s", " ", "1">>,
    <<"N", "F", "L", " ", "G", "a", "m", "e", " ", "P", "a", "s", "s", " ", "1", "0", ":">>,
    <<"N", "F", "L", " ", "M", "u", "l", "t", "i", " ", "S", "c", "r", "e", "e", "n", " ", "/", " ", "H", "D", "R", " ", "1">>,
    <<"N", "F", "L", " ", "|", " ", "0", "1", " ", "-">>,
    <<"P", "a", "r", "a", "m", "o", "u", "n", "t", "+", " ", "0", "1", " ", ":">>,
    <<"P", "a", "r", "a", "m", "o", "u", "n", "t", "+", " ", "1", "0", "0", ":">>,
    <<"E", "S", "P", "N", "+", " ", "0", "2">>,
    <<"E", "S", "P", "N", "+", " ", "1", "0", "0">>,
    <<"N", "C", "A", "A", "F", " ", "0", "1", " ", ":", " ", "M", "i", "d", "d", "l", "e", " ", "T", "e", "n", "n", "e", "s", "s", "e", "e", " ", "a", "t", " ", "D", "e", "l", "a", "w", "a", "r", "e", " ", "@", " ", "0", "7", ":", "3", "0", " ", "P", "M", " ", "E", "T">>,
    <<"N", "B", "A", " ", "0", "2", ":", " ", "L", "a", "k", "e", "r", "s", " ", "v", "s", " ", "C", "e", "l", "t", "i", "c", "s", " ", "@", " ", "8", "p", "m", " ", "E", "T">>,
    <<"P", "a", "r", "a", "m", "o", "u", "n", "t", "+", " ", "0", "5", ":", " ", "U", "E", "F", "A", " ", "C", "h", "a", "m", "p", "i", "o", "n", "s", " ", "L", "e", "a", "g", "u", "e">>,
    <<"P", "e", "a", "c", "o", "c", "k", " ", "0", "1", ":", " ", "S", "t", "u", "d", "i", "o">>,
    <<"N", "B", "A", " ", "0", "1", ":", " ", "S", "t", "u", "d", "i", "o">>,
    <<"N", "C", "A", "A", "F", " ", "0", "1", " ", ":", " ", "X">>,
    <<"N", "C", "A", "A", "F", " ", "0", "1", ":", " ", "X">>,
    <<"M", "I", "L", "B", " ", "0", "1", ":", " ", "X">>,
    <<"M", "i", "L", "B", " ", "0", "1", ":", " ", "X">>,
    <<"N", "B", "A", " ", "0", "3", ":", " ", "X", " ", "2", "0", ":", "0", "0", " ", "E", "T">>,
    <<"N", "B", "A", " ", "0", "4", ":", " ", "X", " ", "1", "1", ":", "3", "0", " ", "P", "M", " ", "P", "T">>,
    <<"N", "B", "A", " ", "0", "6", ":", " ", "J", "a", "n", " ", "1", "5", " ", "0", "8", ":", "0", "0", " ", "P", "M", " ", "E", "T">>,
    <<>>,
    <<"S", "k", "y", " ", "N", "e", "w", "s">> }

(***************************************************************************)
(* Inputs.                                                                 *)
(***************************************************************************)
\* The longest slot number of the generated names.
MaxDigits == 4

\* A slot number of n digits.
SlotNumber(n) == [k \in 1..n |-> IF k = 1 THEN "1" ELSE "0"]

\* A text built along a pattern: each item as written, a slot number of nd
\* digits for the digits, an optional item opt times.
RECURSIVE Instance(_, _, _, _)
Instance(pattern, k, nd, opt) ==
  IF k > Len(pattern) THEN <<>>
  ELSE LET tok == pattern[k]
       IN  (IF tok.set = Digit THEN SlotNumber(nd)
            ELSE [j \in 1..(IF tok.lo = 0 THEN opt ELSE tok.lo) |-> tok.ch])
           \o Instance(pattern, k + 1, nd, opt)

\* What follows the slot number: delimiters, fluff, punctuation, the label.
Tails(label) ==
  { <<>>, <<":">>, <<" ", ":">>, <<" ", ":", " ", "X">>, <<":", " ", "X">>,
    <<" ", "X">>, <<" ", "H", "D">>, <<":", " ", "4", "K", " ", "f", "e", "e", "d">>,
    <<" ", "-">>, <<"\t", ":", "\t", "H", "D", " ", "|", " ", "E", "N">>,
    <<" ">> \o label, <<":", " ">> \o label, <<" ", ":", " ">> \o label }

ShellNames ==
  UNION { { Instance(ALLOWED_CHANNEL_PATTERNS[i].pattern, 1, nd, opt) \o tl :
              nd \in 1..MaxDigits, opt \in 0..1,
              tl \in Tails(ALLOWED_CHANNEL_PATTERNS[i].name) } :
          i \in 1..Len(ALLOWED_CHANNEL_PATTERNS) }

DefaultArgs ==
  [event_duration_min |-> DefaultEventDuration,
   max_event_duration_min |-> DefaultMaxEventDuration]

Date(y, m, d) == [year |-> y, month |-> m, day |-> d]

Entry(cid, name) == [cid |-> cid, name |-> name]

(***************************************************************************)
(* Spec: one run over one entry, its name drawn from the names generated   *)
(* along the pattern table and from the names of the tests.                *)
(***************************************************************************)
Init ==
  \E n \in ShellNames \cup TestNames :
    Start(DefaultArgs, Date(2025, 10, 22), <<Entry(1, n)>>)

Next ==
  \/ FilterKeep
  \/ FilterDrop
  \/ FilterDone
  \/ Classify
  \/ ScheduleGeneric
  \/ ParseTime
  \/ ScheduleWrongDate
  \/ ScheduleToday
  \/ ScheduleTBA
  \/ BuildDone
  \/ Validate
  \/ ValidateDone

Spec == Init /\ [][Next]_vars

(***************************************************************************)
(* SpecSched: one run over one entry whose name carries a clock time, for  *)
(* every minute of the day, under several run configurations.              *)
(***************************************************************************)
TwoDigits(n) == <<DigitSeq[(n \div 10) + 1], DigitSeq[(n % 10) + 1]>>

\* "NBA 02: X @ HH:MM <zone>"
ClockName(h, m, zone) ==
  <<"N", "B", "A", " ", "0", "2", ":", " ", "X", " ", "@", " ">>
    \o TwoDigits(h) \o <<":">> \o TwoDigits(m) \o <<" ">> \o zone

ClockNames ==
  { ClockName(h, m, <<"C", "T">>) : h \in 0..23, m \in 0..59 }
    \cup { ClockName(h, m, z) : h \in 0..23, m \in {0, 30},
                                z \in { <<"E", "T">>, <<"P", "T">>, <<"C", "E", "T">> } }

Args(event_duration_min, max_event_duration_min) ==
  [event_duration_min |-> event_duration_min,
   max_event_duration_min |-> max_event_duration_min]

ArgsValues ==
  { DefaultArgs, Args(0, 360), Args(-60, 360), Args(180, 90), Args(600, 360),
    Args(180, 0) }

InitSched ==
  \E a \in ArgsValues, n \in ClockNames \cup TestNames :
    Start(a, Date(2025, 10, 22), <<Entry(1, n)>>)

SpecSched == InitSched /\ [][Next]_vars

(***************************************************************************)
(* SpecTime: one run over one entry whose name carries a time expression   *)
(* put together from a date, an hour, a minute, AM/PM and a zone, each     *)
(* present or not, valid or not, for several target dates.                 *)
(***************************************************************************)
TimeHeads ==
  { <<>>, <<"J", "a", "n", " ", "1", "5", " ">>, <<"F", "e", "b", " ", "2", "9", " ">>,
    <<"F", "e", "b", " ", "3", "0", " ">>, <<"X", "y", "z", " ", "1", "2", " ">>,
    <<"A", "u", "g", " ", "2", "2", " ">>, <<"A", "u", "g", " ", "2", "3", " ">>,
    <<"O", "c", "t", " ", "2", "2", " ">>, <<"1", "/", "1", "5", " ">>,
    <<"2", "/", "2", "9", " ">>, <<"1", "0", "/", "2", "2", " ">>,
    <<"1", "3", "/", "4", "5", " ">> }

TimeHours ==
  { <<"0">>, <<"0", "7">>, <<"8">>, <<"1", "2">>, <<"1", "3">>, <<"2", "0">>, <<"2", "4">> }

TimeMinutes ==
  { <<>>, <<":", "0", "0">>, <<":", "3", "0">>, <<":", "6", "0">> }

TimeAmPm ==
  { <<>>, <<" ", "P", "M">>, <<"p", "m">>, <<" ", "A", "M">> }

TimeZones ==
  { <<>>, <<" ", "E", "T">>, <<" ", "C", "T">>, <<" ", "P", "T">>, <<" ", "C", "E", "T">>,
    <<" ", "X", "Y", "Z">> }

\* "NBA 02: X @ <date><hour><minute><am/pm><zone>"
TimeName(head, hour, minute, ampm, zone) ==
  <<"N", "B", "A", " ", "0", "2", ":", " ", "X", " ", "@", " ">>
    \o head \o hour \o minute \o ampm \o zone

TimeNamesOf(heads) ==
  { TimeName(hd, h, m, ap, z) :
      hd \in heads, h \in TimeHours, m \in TimeMinutes, ap \in TimeAmPm,
      z \in TimeZones }

TimeNames == TimeNamesOf(TimeHeads)

\* The names that carry a date only a leap year has.
LeapDayNames == TimeNamesOf({ <<"F", "e", "b", " ", "2", "9", " ">>, <<"2", "/", "2", "9", " ">> })

\* The target dates: the date of the tests and a date near the end of a
\* year; the same date in a leap year for the names with a leap day.
InitTime ==
  \/ \E d \in { Date(2025, 10, 22), Date(2025, 12, 20) }, n \in TimeNames \cup TestNames :
       Start(DefaultArgs, d, <<Entry(1, n)>>)
  \/ \E n \in LeapDayNames :
       Start(DefaultArgs, Date(2024, 12, 20), <<Entry(1, n)>>)

SpecTime == InitTime /\ [][Next]_vars

(***************************************************************************)
(* SpecPair: one run over two entries with names of the tests.  Their URLs *)
(* differ (the entries are de-duplicated by URL); their channel ids,       *)
(* chan_id's base name and the first 8 hex digits of the URL's SHA-1, are  *)
(* different or the same.                                                  *)
(***************************************************************************)
InitPair ==
  \E n1 \in TestNames, n2 \in TestNames, cid2 \in {1, 2} :
    Start(DefaultArgs, Date(2025, 10, 22), <<Entry(1, n1), Entry(cid2, n2)>>)

SpecPair == InitPair /\ [][Next]_vars

(***************************************************************************)
(* SpecStudio: one run over one entry, a shell of each pattern followed by *)
(* a studio-show payload, or a name of the tests.                          *)
(***************************************************************************)
StudioWords ==
  { <<"S", "t", "u", "d", "i", "o">>, <<"P", "r", "e", "g", "a", "m", "e">>,
    <<"P", "o", "s", "t", "g", "a", "m", "e">>, <<"S", "T", "U", "D", "I", "O">>,
    <<"S", "t", "u", "d", "i", "o", " ", " ", "S", "h", "o", "w">> }

StudioNames ==
  UNION { { Instance(ALLOWED_CHANNEL_PATTERNS[i].pattern, 1, 2, opt) \o sep \o w :
              opt \in 0..1, sep \in { <<" ">>, <<":", " ">> }, w \in StudioWords } :
          i \in 1..Len(ALLOWED_CHANNEL_PATTERNS) }

InitStudio ==
  \E n \in StudioNames \cup TestNames :
    Start(DefaultArgs, Date(2025, 10, 22), <<Entry(1, n)>>)

SpecStudio == InitStudio /\ [][Next]_vars

(***************************************************************************)
(* SpecValidate: validate_schedule applied to the block list of one        *)
(* channel, for every list of up to MaxBlocks blocks with start < end      *)
(* between instants 0 and MaxInstant, in every order.                      *)
(***************************************************************************)
MaxBlocks == 3

MaxInstant == 4

SomeBlocks ==
  { b \in { [title |-> NoProgrammingToday, start |-> s, end |-> e, desc |-> ""] :
              s \in 0..MaxInstant, e \in 0..MaxInstant } :
      b.start < b.end }

BlockLists == UNION { [1..n -> SomeBlocks] : n \in 0..MaxBlocks }

\* Main at line 778 with one channel whose list is B.
InitValidate ==
  \E B \in BlockLists :
    /\ args = DefaultArgs
    /\ tgt_date = Date(2025, 10, 22)
    /\ entries = <<Entry(1, <<"N", "B", "A", " ", "0", "5", ":">>)>>
    /\ pc = "validate"
    /\ idx = 1
    /\ processed = entries
    /\ match_data = <<[family_name |-> <<"N", "B", "A">>, m |-> [end |-> 7]]>>
    /\ programs = (1 :> B)
    /\ stats = [ZeroStats EXCEPT !.generic = 1]
    /\ classifications = <<ChannelClassification("generic", <<>>, 7, <<>>, <<"empty_payload">>)>>
    /\ event_start_ct = NoTime
    /\ stderr = <<>>
    /\ fill = NoFill

NextValidate == Validate \/ ValidateDone

SpecValidate == InitValidate /\ [][NextValidate]_vars

(***************************************************************************)
(* SpecClock12: one run over one entry whose name carries a time on the    *)
(* 12-hour clock, for every hour 1..12 with AM and PM, or a name of the    *)
(* tests.                                                                  *)
(***************************************************************************)
Markers == { <<"A", "M">>, <<"P", "M">>, <<"a", "m">>, <<"p", "m">> }

\* "NBA 02: X @ H:MM <AM/PM> <zone>", the hour without a leading zero
Clock12Name(h, m, marker, zone) ==
  <<"N", "B", "A", " ", "0", "2", ":", " ", "X", " ", "@", " ">>
    \o (IF h < 10 THEN <<DigitSeq[h + 1]>> ELSE TwoDigits(h))
    \o <<":">> \o TwoDigits(m) \o <<" ">> \o marker \o <<" ">> \o zone

Clock12Names ==
  { Clock12Name(h, m, mk, z) :
      h \in 1..12, m \in {0, 30}, mk \in Markers,
      z \in { <<"C", "T">>, <<"E", "T">> } }

InitClock12 ==
  \E n \in Clock12Names \cup TestNames :
    Start(DefaultArgs, Date(2025, 10, 22), <<Entry(1, n)>>)

SpecClock12 == InitClock12 /\ [][Next]_vars

(***************************************************************************)
(* Reading the state.                                                      *)
(***************************************************************************)
\* Entry j has been through the filter loop.
Filtered(j) == j \in 1..Len(entries) /\ (pc = "filter" => j < idx)

\* Channel k (an index of processed) has been classified.
Classified(k) == k \in 1..Len(classifications)

\* The build loop is done with channel k.
Built(k) ==
  /\ k \in 1..Len(processed)
  /\ \/ pc \in {"validate", "done"}
     \/ pc \in {"build", "classified", "parsed"} /\ k < idx

\* The blocks of channel k.
Blocks(k) ==
  IF processed[k].cid \in DOMAIN programs THEN programs[processed[k].cid] ELSE <<>>

\* Blocks B cover [from, to) in order, each ending where the next starts.
Contiguous(B, from, to) ==
  /\ B # <<>>
  /\ B[1].start = from
  /\ B[Len(B)].end = to
  /\ \A j \in 1..Len(B) : B[j].start < B[j].end
  /\ \A j \in 1..(Len(B) - 1) : B[j].end = B[j + 1].start

\* Blocks B are filler blocks of FillBlockMinutes, the last one cut at to.
FillerTiling(B, to) ==
  /\ \A j \in 1..Len(B) : B[j].title = NoProgrammingToday
  /\ \A j \in 1..Len(B) : B[j].end = Min(B[j].start + FillBlockMinutes, to)

(***************************************************************************)
(* Claims.                                                                 *)
(***************************************************************************)
ShellOnlyExamples ==
  { <<"N", "C", "A", "A", "F", " ", "0", "3", " ", ":">>,
    <<"N", "B", "A", " ", "0", "5", ":">>,
    <<"M", "L", "B", " ", "1", "0", ":", " ">> }

\* C1: a name that is only a shell ("NCAAF 03 :", "NBA 05:", "MLB 10: ") is
\* matched, is classified generic, and its schedule is twelve filler blocks
\* of 120 minutes.
C1_ShellOnlyIsGeneric ==
  /\ \A j \in 1..Len(entries) :
       Filtered(j) /\ entries[j].name \in ShellOnlyExamples
         => \E k \in 1..Len(processed) : processed[k] = entries[j]
  /\ \A k \in 1..Len(processed) :
       processed[k].name \in ShellOnlyExamples =>
         /\ Classified(k) => classifications[k].classification = "generic"
         /\ Built(k) =>
              /\ Len(Blocks(k)) = 12
              /\ \A j \in 1..Len(Blocks(k)) :
                   /\ Blocks(k)[j].title = NoProgrammingToday
                   /\ Blocks(k)[j].end - Blocks(k)[j].start = 120

\* C2: the blocks of a generic channel partition [day_start, day_end): they
\* start at day_start, each ends where the next starts, the last ends at
\* day_end, and each is FillBlockMinutes long except that the last is cut at
\* day_end.
C2_GenericPartition ==
  \A k \in 1..Len(processed) :
    Built(k) /\ classifications[k].classification = "generic" =>
      /\ Contiguous(Blocks(k), day_start, day_end)
      /\ FillerTiling(Blocks(k), day_end)
      /\ \A j \in 1..(Len(Blocks(k)) - 1) :
           Blocks(k)[j].end - Blocks(k)[j].start = FillBlockMinutes

C2_Witness ==
  \E k \in 1..Len(processed) :
    /\ Built(k)
    /\ classifications[k].classification = "generic"
    /\ Len(Blocks(k)) = 12
    /\ Blocks(k)[12].end = day_end

\* The channel whose blocks main added last, event_start_ct being its
\* resolved time if it is an event.
JustBuilt(k) ==
  /\ Built(k)
  /\ pc \in {"build", "validate", "done"}
  /\ k = (IF pc = "build" THEN idx - 1 ELSE Len(processed))

\* C3: under the default configuration the blocks of an event of the target
\* date are, in order, the pre-block [day_start, t) (none when t is
\* day_start), the live block [t, min(t + 180, day_end)) and filler blocks
\* from there to day_end (none when the live block ends at day_end); they
\* cover the day without gap or overlap.  For t = 18:30 they are
\* [00:00,18:30), [18:30,21:30), [21:30,23:30), [23:30,24:00).
C3_EventDayPartition ==
  \A k \in 1..Len(processed) :
    ( /\ JustBuilt(k)
      /\ args = DefaultArgs
      /\ classifications[k].classification = "event"
      /\ event_start_ct.some
      /\ OnTargetDate(event_start_ct.t) ) =>
    LET t == event_start_ct.t
        B == Blocks(k)
        pre == IF t > day_start THEN 1 ELSE 0
        live_end == Min(t + DefaultEventDuration, day_end)
        F == SubSeq(B, pre + 2, Len(B))
    IN  /\ Len(B) >= pre + 1
        /\ pre = 1 => /\ B[1].title.kind = "Airing Next: @ CT"
                      /\ B[1].start = day_start
                      /\ B[1].end = t
        /\ B[pre + 1].title.kind = "Live"
        /\ B[pre + 1].start = t
        /\ B[pre + 1].end = live_end
        /\ (live_end = day_end) <=> (F = <<>>)
        /\ F # <<>> => Contiguous(F, live_end, day_end) /\ FillerTiling(F, day_end)
        /\ Contiguous(B, day_start, day_end)
        /\ t = 18 * 60 + 30 =>
             [j \in 1..Len(B) |-> <<B[j].start, B[j].end>>]
               = << <<0, 1110>>, <<1110, 1290>>, <<1290, 1410>>, <<1410, 1440>> >>

C3_Witness ==
  \E k \in 1..Len(processed) :
    /\ JustBuilt(k)
    /\ args = DefaultArgs
    /\ classifications[k].classification = "event"
    /\ event_start_ct = [some |-> TRUE, t |-> 18 * 60 + 30]
    /\ Len(Blocks(k)) = 4
    /\ Blocks(k)[2].title.kind = "Live"

\* C4: every block of every schedule has start < end, whatever the run
\* configuration.
C4_BlocksNonEmpty ==
  \A cid \in DOMAIN programs :
    \A j \in 1..Len(programs[cid]) : programs[cid][j].start < programs[cid][j].end

\* C5: a non-empty payload all of whose tokens (however many) are fluff
\* tokens is classified generic with the warning all_fluff_tokens.
C5_AllFluffIsGeneric ==
  \A k \in 1..Len(classifications) :
    LET c == classifications[k]
        toks == SplitTokens(upper(c.payload), 0)
    IN  (c.payload # <<>> /\ \A i \in 1..Len(toks) : toks[i] \in FLUFF_TOKENS) =>
          c.classification = "generic" /\ c.warnings = <<"all_fluff_tokens">>

\* The payload of channel k as the classifier compares it.
PayloadUpper(k) == upper(strip(CollapseSpace(classifications[k].payload, 0)))

HasWarning(k, w) ==
  \E i \in 1..Len(classifications[k].warnings) : classifications[k].warnings[i] = w

\* The label consists of fluff tokens only.
FluffLabel(label) ==
  LET toks == SplitTokens(upper(label), 0)
  IN  \A i \in 1..Len(toks) : toks[i] \in FLUFF_TOKENS

\* C6, as claimed: a matched name whose payload is its family's label is
\* classified event with the warning ambiguous_family_only, for every family.
C6_LabelPayloadIsAmbiguousEvent ==
  \A k \in 1..Len(classifications) :
    PayloadUpper(k) = upper(match_data[k].family_name) =>
      classifications[k].classification = "event" /\ HasWarning(k, "ambiguous_family_only")

\* C6, amended: a matched name whose payload is its family's label is
\* classified event with the warning ambiguous_family_only, unless the label
\* consists of fluff tokens only (LIVE EVENT), and then it is classified
\* generic with the warning all_fluff_tokens.
C6_LabelPayloadAmended ==
  \A k \in 1..Len(classifications) :
    PayloadUpper(k) = upper(match_data[k].family_name) =>
      IF FluffLabel(match_data[k].family_name)
      THEN /\ classifications[k].classification = "generic"
           /\ classifications[k].warnings = <<"all_fluff_tokens">>
      ELSE /\ classifications[k].classification = "event"
           /\ classifications[k].warnings = <<"ambiguous_family_only">>

C6_Witness ==
  \E k \in 1..Len(classifications) :
    /\ PayloadUpper(k) = upper(match_data[k].family_name)
    /\ match_data[k].family_name # upper(match_data[k].family_name)
    /\ classifications[k].classification = "event"
    /\ HasWarning(k, "ambiguous_family_only")
    /\ stats.ambiguous = 1

\* The entries of the table whose grammar matches the normalized name n.
MatchingEntries(n) ==
  { i \in 1..Len(CHANNEL_PATTERNS) : rx_match(CHANNEL_PATTERNS[i].rx, n) # NoneMatch }

\* C7: an entry is kept exactly when some table entry matches its normalized
\* name, and then with the label and the shell end of the earliest such entry.
C7_FirstMatchWins ==
  \A j \in 1..Len(entries) :
    Filtered(j) =>
      LET n == NormalizeName(disp(entries[j]))
          M == MatchingEntries(n)
          first == CHOOSE i \in M : \A i2 \in M : i <= i2
      IN  IF M = {}
          THEN \A k \in 1..Len(processed) : processed[k] # entries[j]
          ELSE \E k \in 1..Len(processed) :
                 /\ processed[k] = entries[j]
                 /\ match_data[k].family_name = CHANNEL_PATTERNS[first].name
                 /\ match_data[k].m = rx_match(CHANNEL_PATTERNS[first].rx, n)

\* A name that a later entry with another label matches too.
C7_Witness ==
  \E k \in 1..Len(processed) :
    \E i \in MatchingEntries(NormalizeName(disp(processed[k]))) :
      /\ CHANNEL_PATTERNS[i].name # match_data[k].family_name
      /\ \E i0 \in 1..(i - 1) :
           /\ CHANNEL_PATTERNS[i0].name = match_data[k].family_name
           /\ i0 \in MatchingEntries(NormalizeName(disp(processed[k])))

\* The pieces of s between its colons from offset pos on, the whitespace
\* around each colon dropped.
RECURSIVE ColonPieces(_, _)
ColonPieces(s, pos) ==
  LET colons == { p \in pos..(Len(s) - 1) : s[p + 1] = ":" }
  IN  IF colons = {} THEN <<SliceFrom(s, pos)>>
      ELSE <<rstrip(SubSeq(s, pos + 1, Smallest(colons)))>> \o
           ColonPieces(s, Smallest(colons) + 1
                            + RunLen(s, Smallest(colons) + 1, Star(Space), 0))

RECURSIVE JoinPieces(_, _, _)
JoinPieces(pieces, seps, k) ==
  IF k = Len(pieces) THEN pieces[k]
  ELSE pieces[k] \o seps[k] \o JoinPieces(pieces, seps, k + 1)

\* The names that differ from s only in the whitespace around its colons.
ColonVariants(s) ==
  LET pieces == ColonPieces(s, 0)
  IN  { JoinPieces(pieces, seps, 1) :
          seps \in [1..(Len(pieces) - 1) ->
                      { <<":">>, <<" ", ":">>, <<":", " ">>, <<" ", ":", " ">> }] }

\* C8: names that differ only in the whitespace before or after a colon get
\* the same matched flag and the same family.
C8_ColonWhitespaceInsensitive ==
  \A j \in 1..Len(entries) :
    Filtered(j) =>
      \A v \in ColonVariants(disp(entries[j])) :
        LET r == match_prefix_and_shell(v)
        IN  IF r.ok
            THEN \E k \in 1..Len(processed) :
                   processed[k] = entries[j] /\ match_data[k].family_name = r.family_name
            ELSE \A k \in 1..Len(processed) : processed[k] # entries[j]

NCAAF == <<"N", "C", "A", "A", "F">>

\* C9: "NCAAF <n>:" matches family NCAAF for a slot number of one, two,
\* three or four digits.
C9_FlexibleDigits ==
  \A j \in 1..Len(entries) :
    ( /\ Filtered(j)
      /\ \E nd \in 1..4 : entries[j].name = NCAAF \o <<" ">> \o SlotNumber(nd) \o <<":">> )
    => \E k \in 1..Len(processed) :
         processed[k] = entries[j] /\ match_data[k].family_name = NCAAF

MLS == <<"M", "L", "S">>

\* C10: "MLS 10" (no colon) matches no family; "MLS 05:" and "MLS 01 : Game"
\* match family MLS.
C10_MlsNeedsColon ==
  \A j \in 1..Len(entries) :
    Filtered(j) =>
      /\ entries[j].name = MLS \o <<" ", "1", "0">> =>
           \A k \in 1..Len(processed) : processed[k] # entries[j]
      /\ entries[j].name \in { MLS \o <<" ", "0", "5", ":">>,
                               MLS \o <<" ", "0", "1", " ", ":", " ", "G", "a", "m", "e">> } =>
           \E k \in 1..Len(processed) :
             processed[k] = entries[j] /\ match_data[k].family_name = MLS

(***************************************************************************)
(* Time parsing, read from the state after line 739.                       *)
(***************************************************************************)
\* The text try_parse_time has just searched.
ParsedText == strip(classifications[idx].payload)

\* Grammar r matches the text.
GrammarMatches(r) == rx_search(EVENT_TIME_RXES[r], ParsedText, 0).start # -1

\* What grammar r alone makes of the text: NoTime when it does not match or
\* its match does not parse.
GrammarResult(r) ==
  LET m == rx_search(EVENT_TIME_RXES[r], ParsedText, 0)
  IN  IF m.start = -1 THEN NoTime
      ELSE ParseMatch(r, ParsedText, m, tgt_date.year, central, tgt_date)

\* The grammars that match and parse, and the first of them (0: none).
Parsing == { r \in 1..Len(EVENT_TIME_RXES) : GrammarResult(r).some }

Winning == LET P == Parsing IN IF P = {} THEN 0 ELSE Smallest(P)

\* C11: try_parse_time returns what the first grammar that both matches and
\* parses computes, skipping every earlier grammar whose match does not
\* parse, and None (never an exception) when there is no such grammar.
C11_FirstParsingGrammarWins ==
  pc = "parsed" =>
    LET w == Winning
    IN  event_start_ct = IF w = 0 THEN NoTime ELSE GrammarResult(w)

\* A grammar that matches but does not parse is skipped and a later one wins.
C11_Witness ==
  /\ pc = "parsed"
  /\ event_start_ct.some
  /\ \E r \in 1..(Winning - 1) : GrammarMatches(r)

\* What grammar w captured (0: no grammar): the month and the day (0 for a
\* grammar without a date), the hour on the 24-hour clock, the minute, the
\* zone abbreviation and where it starts in the text.
CapturedBy(w) ==
  LET m == rx_search(EVENT_TIME_RXES[w], ParsedText, 0)
      g(k) == Group(ParsedText, m, k)
      last == Len(EVENT_TIME_RXES[w])
  IN  IF w = 0
      THEN [grammar |-> 0, month |-> 0, day |-> 0, hour |-> 0, minute |-> 0,
            zone |-> NoneStr, zone_start |-> 0]
      ELSE [grammar |-> w,
            month |-> CASE w = 1 -> MONTHS(g(1)) [] w = 3 -> int(g(1)) [] OTHER -> 0,
            day |-> IF w \in {1, 3} THEN int(g(3)) ELSE 0,
            hour |-> CASE w = 1 -> _fix_12hour_time(int(g(5)), g(9) \o g(10))
                       [] w = 2 -> _fix_12hour_time(int(g(1)), g(5) \o g(6))
                       [] w = 3 -> int(g(5))
                       [] w = 4 -> int(g(1))
                       [] OTHER -> _fix_12hour_time(int(g(1)), g(3) \o g(4)),
            minute |-> CASE w \in {1, 3} -> int(g(7))
                         [] w \in {2, 4} -> int(g(3))
                         [] OTHER -> 0,
            zone |-> upper(g(last)),
            zone_start |-> m.ends[last - 1]]

\* What the winning grammar captured.
Captured == CapturedBy(Winning)

\* The grammars without a date.
Undated == {2, 4, 5}

\* Text s ends in text e.
EndsIn(s, e) == Len(s) >= Len(e) /\ SubSeq(s, Len(s) - Len(e) + 1, Len(s)) = e

\* The payload carries no month/day expression and ends in e.
UndatedEndingIn(e) ==
  /\ pc = "parsed"
  /\ EndsIn(ParsedText, e)
  /\ ~GrammarMatches(1)
  /\ ~GrammarMatches(3)

\* What Central clocks show later than the clocks of the zone, in minutes,
\* on the dates of the names and the target dates (none of them lies between
\* the European and the American change of the clocks).
CentralAhead ==
  (<<"E", "T">> :> -60) @@ (<<"C", "T">> :> 0) @@ (<<"P", "T">> :> 120)
    @@ (<<"C", "E", "T">> :> -420)

\* C12: with target date 2025-10-22 a payload ending in "@ 07:30 PM ET"
\* resolves to 18:30 Central of that day, one ending in "20:00 ET" to 19:00
\* and one ending in "8pm PT" to 22:00; in general the time of day returned
\* is the matched time of day shifted by the difference of the offsets of
\* the source zone and Central, and for a grammar without a date it is that
\* time of the target day.
C12_ShiftedToCentral ==
  /\ tgt_date = Date(2025, 10, 22) =>
       /\ UndatedEndingIn(<<"@", " ", "0", "7", ":", "3", "0", " ", "P", "M", " ", "E", "T">>)
            => event_start_ct = [some |-> TRUE, t |-> 18 * 60 + 30]
       /\ UndatedEndingIn(<<"2", "0", ":", "0", "0", " ", "E", "T">>)
            => event_start_ct = [some |-> TRUE, t |-> 19 * 60]
       /\ UndatedEndingIn(<<"8", "p", "m", " ", "P", "T">>)
            => event_start_ct = [some |-> TRUE, t |-> 22 * 60]
  /\ (pc = "parsed" /\ event_start_ct.some) =>
       LET c == Captured
           shifted == c.hour * 60 + c.minute + CentralAhead[c.zone]
       IN  c.zone \in DOMAIN CentralAhead =>
             /\ event_start_ct.t % DayMinutes = shifted % DayMinutes
             /\ c.grammar \in Undated => event_start_ct.t = shifted

\* "X @ 8pm PT" has been resolved for 2025-10-22.
C12_Witness ==
  /\ tgt_date = Date(2025, 10, 22)
  /\ UndatedEndingIn(<<"8", "p", "m", " ", "P", "T">>)
  /\ event_start_ct.some
  /\ Captured.zone = <<"P", "T">>

\* The wall-clock time of zone z at resolved time t, an instant of year y,
\* in minutes from 00:00 of the target date on the clocks of z.
InZoneOfYear(t, z, y) ==
  LET day == Ordinal(tgt_date.year, tgt_date.month, tgt_date.day) * DayMinutes
      utc == day + t - OffsetOfWall(central, y, day + t)
  IN  utc + OffsetOfUtc(z, y, utc) - day

InZone(t, z) == InZoneOfYear(t, z, tgt_date.year)

\* C13 as claimed: for a time expression without a date (grammars 2, 4, 5)
\* and every zone abbreviation, the calendar date of the instant returned is
\* the target date.
C13_UndatedIsOnTargetDate ==
  (pc = "parsed" /\ event_start_ct.some /\ Captured.grammar \in Undated)
    => OnTargetDate(event_start_ct.t)

\* C13 amended: for a time expression without a date (grammars 2, 4, 5) the
\* instant returned is the captured time of day of the target date on the
\* clocks of the source zone; on the clocks of the output zone it lies
\* within a day of the target date.
C13_UndatedIsOnTargetDateOfSource ==
  (pc = "parsed" /\ event_start_ct.some) =>
    LET c == Captured
    IN  c.grammar \in Undated =>
          /\ InZone(event_start_ct.t, _tzinfo_for_abbr(c.zone)) = c.hour * 60 + c.minute
          /\ c.hour * 60 + c.minute \in day_start..(day_end - 1)
          /\ event_start_ct.t \in (day_start - DayMinutes)..(day_end + DayMinutes - 1)

\* A time without a date that is on the target date in its source zone and
\* on another date in Central.
C13_Witness ==
  /\ pc = "parsed"
  /\ event_start_ct.some
  /\ Captured.grammar \in Undated
  /\ ~OnTargetDate(event_start_ct.t)

\* The dated grammar (1 or 3) that is the first to match, when no grammar
\* before it parses and its month, day, hour and minute make a date and time
\* of the target year; 0 when there is none.
DatedCandidate ==
  LET D == { r \in {1, 3} :
               /\ GrammarMatches(r)
               /\ \A r2 \in 1..(r - 1) : ~GrammarResult(r2).some
               /\ LET c == CapturedBy(r)
                  IN  datetime(tgt_date.year, c.month, c.day, c.hour, c.minute,
                               _tzinfo_for_abbr(c.zone)).ok }
  IN  IF D = {} THEN 0 ELSE Smallest(D)

\* The days from month/day of the target year to the target date.
DaysBefore(c) ==
  Ordinal(tgt_date.year, tgt_date.month, tgt_date.day) - Ordinal(tgt_date.year, c.month, c.day)

\* C14: a month/day expression without a year (grammars 1 and 3) resolves to
\* that day and time of the target year in the source zone, and to that day
\* of the year after when the day is more than 60 days before the target
\* date (Jan 15 is 2026-01-15 for target date 2025-12-20).
C14_YearRollover ==
  pc = "parsed" =>
    LET r == DatedCandidate
        c == CapturedBy(r)
        y == IF DaysBefore(c) > RolloverDays THEN tgt_date.year + 1 ELSE tgt_date.year
    IN  r # 0 =>
          /\ event_start_ct.some
          /\ InZoneOfYear(event_start_ct.t, _tzinfo_for_abbr(c.zone), y)
               = (Ordinal(y, c.month, c.day)
                  - Ordinal(tgt_date.year, tgt_date.month, tgt_date.day)) * DayMinutes
                 + c.hour * 60 + c.minute

\* The year of the instant grammar capture c resolves to.
ResolvedYear(c) ==
  IF c.grammar \notin Undated /\ DaysBefore(c) > RolloverDays
  THEN tgt_date.year + 1 ELSE tgt_date.year

\* C15: a zone abbreviation that is not in TZ_TO_IANA does not make the
\* grammar that captured it fail, and the instant returned is the captured
\* time of day on the clocks of America/New_York.
C15_UnknownZoneIsEastern ==
  pc = "parsed" =>
    LET w == Winning
    IN  /\ \A r \in Undated :
             (w = 0 \/ w >= r) =>                \* no grammar before r parses
               LET c == CapturedBy(r)
               IN  (/\ GrammarMatches(r)
                    /\ c.zone \notin DOMAIN TZ_TO_IANA
                    /\ c.hour \in 0..23 /\ c.minute \in 0..59)
                   => event_start_ct.some /\ w = r
        /\ event_start_ct.some =>
             LET c == CapturedBy(w)
             IN  c.zone \notin DOMAIN TZ_TO_IANA =>
                   InZoneOfYear(event_start_ct.t, NewYork, ResolvedYear(c)) % DayMinutes
                     = c.hour * 60 + c.minute

\* A time with the zone abbreviation XYZ has been resolved.
C15_Witness ==
  /\ pc = "parsed"
  /\ event_start_ct.some
  /\ Captured.zone = <<"X", "Y", "Z">>

ParamountUefa ==
  <<"P", "a", "r", "a", "m", "o", "u", "n", "t", "+", " ", "0", "5", ":", " ", "U", "E", "F", "A", " ", "C", "h", "a", "m", "p", "i", "o", "n", "s", " ", "L", "e", "a", "g", "u", "e">>

\* C16: an event whose time is not resolved, or is resolved to a date other
\* than the target date, gets exactly one block [day_start, day_end), which
\* is neither a live block nor a filler block; "Paramount+ 05: UEFA
\* Champions League" is an event without a resolved time and gets the single
\* all-day "Time TBA" block.
C16_OneAllDayBlock ==
  \A k \in 1..Len(processed) :
    JustBuilt(k) =>
      /\ ( /\ classifications[k].classification = "event"
           /\ ~event_start_ct.some \/ event_start_ct.t \notin day_start..(day_end - 1) )
         => /\ Len(Blocks(k)) = 1
            /\ Blocks(k)[1].start = day_start
            /\ Blocks(k)[1].end = day_end
            /\ Blocks(k)[1].title.kind
                 = IF event_start_ct.some THEN "Airing Next: @ CT"
                   ELSE "Airing Next: (Time TBA)"
            /\ Blocks(k)[1].title.payload = strip(classifications[k].payload)
      /\ disp(processed[k]) = ParamountUefa
         => /\ classifications[k].classification = "event"
            /\ ~event_start_ct.some
            /\ Len(Blocks(k)) = 1
            /\ Blocks(k)[1].title.kind = "Airing Next: (Time TBA)"

\* The channel "Paramount+ 05: UEFA Champions League" has its block.
C16_Witness ==
  /\ JustBuilt(1)
  /\ disp(processed[1]) = ParamountUefa
  /\ Blocks(1) = << [title |-> Title("Airing Next: (Time TBA)",
                                    <<"U", "E", "F", "A", " ", "C", "h", "a", "m", "p", "i",
                                      "o", "n", "s", " ", "L", "e", "a", "g", "u", "e">>, 0),
                     start |-> day_start, end |-> day_end, desc |-> ""] >>

\* The "oversized" warnings validate_schedule has printed for channel k.
OversizedWarnings(k) ==
  { i \in 1..Len(stderr) :
      stderr[i] = [cid |-> processed[k].cid, warn |-> "oversized"] }

\* The blocks of channel k that are longer than 12 hours.
OversizedBlocks(k) ==
  { j \in 1..Len(Blocks(k)) :
      Blocks(k)[j].end - Blocks(k)[j].start > MaxBlockHours * 60 }

\* C17: once the schedules are validated, every block longer than 12 hours
\* has been flagged as oversized, whatever its position among the blocks of
\* its channel and however many blocks the channel has.
C17_EveryOversizedBlockFlagged ==
  pc = "done" =>
    \A k \in 1..Len(processed) :
      Cardinality(OversizedWarnings(k)) = Cardinality(OversizedBlocks(k))

\* Main is about to schedule a channel it has scheduled before: an earlier
\* entry has the same channel id and the same name (so the same
\* classification and resolved time).
ScheduledBefore ==
  /\ pc \in {"classified", "parsed"}
  /\ \E j \in 1..(idx - 1) : processed[j] = processed[idx]

\* C18: scheduling a channel a second time, with the same identifier,
\* classification, resolved time and day boundaries, against the same output
\* map leaves the channel's block list as it was after the first time.
C18_SchedulingIdempotent ==
  [][ (ScheduledBefore /\ pc' = "build") => programs' = programs ]_vars

PeacockStudio ==
  <<"P", "e", "a", "c", "o", "c", "k", " ", "0", "1", ":", " ", "S", "t", "u", "d", "i", "o">>

StudioPayloads ==
  { <<"S", "T", "U", "D", "I", "O">>, <<"P", "R", "E", "G", "A", "M", "E">>,
    <<"P", "O", "S", "T", "G", "A", "M", "E">> }

LiveBlocks(k) == { j \in 1..Len(Blocks(k)) : Blocks(k)[j].title.kind = "Live" }

\* C20: an event resolved to the target date has one live block; it starts
\* at the resolved time and lasts min(event_duration_min,
\* max_event_duration_min) minutes unless that passes day_end, when it ends
\* at day_end; so it is never longer than max_event_duration_min and never
\* ends after day_end.
C20_LiveBlockCapped ==
  \A k \in 1..Len(processed) :
    ( /\ JustBuilt(k)
      /\ classifications[k].classification = "event"
      /\ event_start_ct.some
      /\ event_start_ct.t \in day_start..(day_end - 1) ) =>
    LET t == event_start_ct.t
        duration == IF args.event_duration_min <= args.max_event_duration_min
                    THEN args.event_duration_min ELSE args.max_event_duration_min
    IN  /\ Cardinality(LiveBlocks(k)) = 1
        /\ \A j \in LiveBlocks(k) :
             LET b == Blocks(k)[j]
             IN  /\ b.start = t
                 /\ b.end = IF t + duration > day_end THEN day_end ELSE t + duration
                 /\ b.end - b.start <= args.max_event_duration_min
                 /\ b.end <= day_end
                 /\ b.title.payload = strip(classifications[k].payload)

\* An event whose duration of 600 minutes is cut to the maximum of 360.
C20_Witness ==
  /\ JustBuilt(1)
  /\ args = Args(600, 360)
  /\ event_start_ct.some
  /\ \E j \in LiveBlocks(1) :
       /\ Blocks(1)[j].start = event_start_ct.t
       /\ Blocks(1)[j].end = event_start_ct.t + 360
       /\ Blocks(1)[j].end < day_end

\* Two blocks overlap: each starts before the other ends.  For blocks with
\* start < end this is: the one that starts first, or either of two that
\* start together, ends after the other's start.
Overlap(a, b) == a.start < b.end /\ b.start < a.end

\* Some two blocks of list B overlap.
SomeOverlap(B) == \E i, j \in 1..Len(B) : i < j /\ Overlap(B[i], B[j])

\* C21: validate_schedule, applied to the blocks of a channel in whatever
\* order they are, reports an overlap when some two of them overlap and
\* reports none when no two do, and leaves the channel's list as it is.
C21_OverlapsReported ==
  [][ (pc = "validate" /\ idx <= Len(processed)) =>
        /\ programs' = programs
        /\ (\E i \in (Len(stderr) + 1)..Len(stderr') :
              stderr'[i] = [cid |-> processed[idx].cid, warn |-> "overlap"])
           <=> SomeOverlap(Blocks(idx)) ]_vars

\* A list that is not in the order of its starts, with an overlap between
\* two blocks that are not next to each other in it, has been validated.
C21_Witness ==
  /\ pc = "validate"
  /\ idx = 2
  /\ Len(Blocks(1)) = 3
  /\ Blocks(1)[1].start > Blocks(1)[2].start
  /\ Overlap(Blocks(1)[1], Blocks(1)[3])
  /\ ~Overlap(Blocks(1)[1], Blocks(1)[2])
  /\ ~Overlap(Blocks(1)[2], Blocks(1)[3])
  /\ \E i \in 1..Len(stderr) : stderr[i].warn = "overlap"

\* The hour of the 24-hour clock for hour h of the 12-hour clock.
Hour24(h, marker) ==
  IF upper(marker) = <<"A", "M">>
  THEN (IF h = 12 THEN 0 ELSE h)
  ELSE (IF h = 12 THEN 12 ELSE h + 12)

\* C22: for every hour h in 1..12, _fix_12hour_time maps (12, AM) to 0,
\* (12, PM) to 12, (h, AM) to h and (h, PM) to h + 12 for the other hours;
\* the result is in 0..23 and differs for different (hour, AM/PM) pairs; a
\* time "h:mm AM/PM" in a name resolves to that hour.
C22_TwelveHourClock ==
  /\ \A h \in 1..12, mk \in Markers :
       /\ _fix_12hour_time(h, mk) = Hour24(h, mk)
       /\ _fix_12hour_time(h, mk) \in 0..23
       /\ \A h2 \in 1..12, mk2 \in Markers :
            _fix_12hour_time(h, mk) = _fix_12hour_time(h2, mk2)
              => h = h2 /\ upper(mk) = upper(mk2)
  /\ pc = "parsed" =>
       \A h \in 1..12, m \in {0, 30}, mk \in Markers :
         /\ disp(processed[idx]) = Clock12Name(h, m, mk, <<"C", "T">>)
              => event_start_ct = [some |-> TRUE, t |-> Hour24(h, mk) * 60 + m]
         /\ disp(processed[idx]) = Clock12Name(h, m, mk, <<"E", "T">>)
              => event_start_ct = [some |-> TRUE, t |-> Hour24(h, mk) * 60 + m - 60]

\* "X @ 12:30 am CT" has been resolved to 00:30.
C22_Witness ==
  /\ pc = "parsed"
  /\ disp(processed[idx]) = Clock12Name(12, 30, <<"a", "m">>, <<"C", "T">>)
  /\ event_start_ct = [some |-> TRUE, t |-> 30]

\* The payload of channel k is the trimmed text of its name after a prefix
\* that, with the whitespace around its colons normalized as the matcher
\* does, is the shell the pattern matched.
PayloadFollowsShell(k) ==
  LET raw == disp(processed[k])
      shell == rstrip(SubSeq(NormalizeName(raw), 1, match_data[k].m.end))
  IN  \E p \in 0..Len(raw) :
        /\ rstrip(SubColon(SubSeq(raw, 1, p), 0)) = shell
        /\ classifications[k].payload = strip(SliceFrom(raw, p))

\* C23: for every name that matches a family the payload is the trimmed text
\* that follows the shell (family, slot number, delimiter) and holds nothing
\* of the shell or its colon, whatever the whitespace around the colon:
\* "NCAAF 01 : X" and "NCAAF 01: X" both have the payload "X".
C23_PayloadExcludesShell ==
  \A k \in 1..Len(classifications) :
    /\ PayloadFollowsShell(k)
    /\ disp(processed[k]) \in { <<"N", "C", "A", "A", "F", " ", "0", "1", " ", ":", " ", "X">>,
                                <<"N", "C", "A", "A", "F", " ", "0", "1", ":", " ", "X">> }
         => classifications[k].payload = <<"X">>

\* The channels the build loop is done with.
BuiltChannels == { k \in 1..Len(processed) : Built(k) }

\* The scheduling case of channel k, from its classification and the time
\* its payload resolves to.
CaseOf(k) ==
  IF classifications[k].classification = "generic" THEN "generic"
  ELSE LET r == try_parse_time(classifications[k].payload, tgt_date.year, central, tgt_date)
       IN  IF ~r.some THEN "event_tba"
           ELSE IF r.t \in day_start..(day_end - 1) THEN "event_with_time"
           ELSE "event_wrong_date"

\* The scheduling case the blocks of channel k show.
CaseOfBlocks(k) ==
  IF \E j \in 1..Len(Blocks(k)) : Blocks(k)[j].title.kind = "Live" THEN "event_with_time"
  ELSE IF Blocks(k)[1].title.kind = "Airing Next: (Time TBA)" THEN "event_tba"
  ELSE IF Blocks(k)[1].title.kind = "Airing Next: @ CT" THEN "event_wrong_date"
  ELSE "generic"

\* C24: between two channels of the build loop and after it, generic + event
\* is the number of channels built and event = event_with_time + event_tba
\* + event_wrong_date; each counter is the number of channels built whose
\* scheduling case it names, which is the case the channel's blocks show
\* (for a channel that shares its id with no other).
C24_CountersAddUp ==
  pc \in {"build", "validate", "done"} =>
    /\ stats.generic + stats.event = Cardinality(BuiltChannels)
    /\ stats.event = stats.event_with_time + stats.event_tba + stats.event_wrong_date
    /\ \A c \in {"generic", "event_with_time", "event_tba", "event_wrong_date"} :
         stats[c] = Cardinality({ k \in BuiltChannels : CaseOf(k) = c })
    /\ \A k \in BuiltChannels :
         (\A k2 \in 1..Len(processed) : k2 # k => processed[k2].cid # processed[k].cid)
           => CaseOfBlocks(k) = CaseOf(k)

\* Two channels are built, one event on another date and one generic.
C24_Witness ==
  /\ pc = "done"
  /\ Len(processed) = 2
  /\ stats.generic = 1
  /\ stats.event = 1
  /\ stats.event_wrong_date = 1

\* The names of SpecTime with a PM time of hour 1..12 and no date, with and
\* without minutes, with every zone and with none.
PmNames ==
  { TimeName(<<>>, h, m, mk, z) :
      h \in { <<"0", "7">>, <<"8">>, <<"1", "2">> },
      m \in { <<>>, <<":", "0", "0">>, <<":", "3", "0">> },
      mk \in { <<" ", "P", "M">>, <<"p", "m">> },
      z \in TimeZones }

\* C25: when a payload holds a 12-hour clock time with a PM marker ("H:MM PM"
\* or "H PM", hour 1..12) and try_parse_time resolves it, the hour on the
\* clocks of the source zone is in 12..23, whether or not a zone
\* abbreviation follows the marker.
C25_PmIsAfternoon ==
  (pc = "parsed" /\ event_start_ct.some /\ disp(processed[idx]) \in PmNames) =>
    InZone(event_start_ct.t, _tzinfo_for_abbr(Captured.zone)) \div 60 \in 12..23

\* The names written along entry i of the table: its own text with a slot
\* number of each length, with and without its optional items.
NamesAlong(i) ==
  { Instance(ALLOWED_CHANNEL_PATTERNS[i].pattern, 1, nd, opt) :
      nd \in 1..MaxDigits, opt \in 0..1 }

\* The entries of the table that are the first match of one of their names.
FirstMatchOfSome ==
  { i \in 1..Len(CHANNEL_PATTERNS) :
      \E n \in NamesAlong(i) :
        /\ rx_match(CHANNEL_PATTERNS[i].rx, NormalizeName(n)) # NoneMatch
        /\ \A j \in 1..(i - 1) :
             rx_match(CHANNEL_PATTERNS[j].rx, NormalizeName(n)) = NoneMatch }

\* The name starts with the text p.
StartsWith(name, p) == Len(name) >= Len(p) /\ SubSeq(name, 1, Len(p)) = p

\* C26: no entry of the pattern table is shadowed: every entry is the first
\* match of at least one name, and a channel "MILB 01:" (uppercase I) is
\* reported as family "MILB" while "MiLB 01:" is reported as family "MiLB".
C26_NoEntryShadowed ==
  /\ FirstMatchOfSome = 1..Len(CHANNEL_PATTERNS)
  /\ \A k \in 1..Len(match_data) :
       /\ StartsWith(disp(processed[k]), <<"M", "I", "L", "B", " ", "0", "1", ":">>) => match_data[k].family_name = <<"M", "I", "L", "B">>
       /\ StartsWith(disp(processed[k]), <<"M", "i", "L", "B", " ", "0", "1", ":">>) => match_data[k].family_name = <<"M", "i", "L", "B">>

(***************************************************************************)
(* SpecFill: one call of fill_no_programming followed iteration by         *)
(* iteration, for every range between instants 0 and MaxFillInstant (start *)
(* before, at and after the end) and every block length from 1 to          *)
(* MaxBlockMinutes. The interpreter runs the loop without interruption,    *)
(* hence the weak fairness of its steps.                                   *)
(***************************************************************************)
MaxFillInstant == 6

MaxBlockMinutes == 4

\* Lines 537-540: one iteration of the while loop.
FillStep ==
  /\ pc = "fill"
  /\ fill.cur < fill.day_end
  /\ programs' = add_block(programs, fill.cid, NoProgrammingToday, fill.cur,
                           nxt(fill.cur, fill.day_end, fill.block_minutes))
  /\ fill' = [fill EXCEPT !.cur = nxt(fill.cur, fill.day_end, fill.block_minutes)]
  /\ UNCHANGED <<args, tgt_date, entries, pc, idx, processed, match_data, stats,
                 classifications, event_start_ct, stderr>>

\* Line 537, the condition false: the function returns.
FillReturn ==
  /\ pc = "fill"
  /\ ~(fill.cur < fill.day_end)
  /\ pc' = "filled"
  /\ UNCHANGED <<fill, args, tgt_date, entries, idx, processed, match_data, programs,
                 stats, classifications, event_start_ct, stderr>>

InitFill ==
  \E s \in 0..MaxFillInstant, e \in 0..MaxFillInstant, b \in 1..MaxBlockMinutes :
    /\ args = DefaultArgs
    /\ tgt_date = Date(2025, 10, 22)
    /\ entries = <<>>
    /\ pc = "fill"
    /\ idx = 1
    /\ processed = <<>>
    /\ match_data = <<>>
    /\ programs = <<>>
    /\ stats = ZeroStats
    /\ classifications = <<>>
    /\ event_start_ct = NoTime
    /\ stderr = <<>>
    /\ fill = [cid |-> 1, day_start |-> s, day_end |-> e, block_minutes |-> b, cur |-> s]

NextFill == FillStep \/ FillReturn

SpecFill == InitFill /\ [][NextFill]_vars /\ WF_vars(NextFill)

\* a / b rounded up, for a >= 0 and b > 0.
Ceil(a, b) == (a + b - 1) \div b

\* The blocks the call has emitted.
Emitted == IF fill.cid \in DOMAIN programs THEN programs[fill.cid] ELSE <<>>

\* C27: fill_no_programming terminates for every range [start, end) and
\* every positive block length: the cursor strictly increases on every
\* iteration and never passes end, the call returns, and on return the
\* cursor equals end and ceil((end - start) / block_minutes) blocks are
\* emitted when start < end, and no block is emitted when start >= end.
C27_FillTerminates ==
  /\ <>(pc = "filled")
  /\ [][(pc = "fill" /\ pc' = "fill") =>
          /\ fill.cur < fill'.cur
          /\ fill'.cur <= fill.day_end
          /\ Len(Emitted') = Len(Emitted) + 1]_vars
  /\ [](pc = "filled" =>
          /\ programs = fill_no_programming(<<>>, fill.cid, fill.day_start,
                                            fill.day_end, fill.block_minutes)
          /\ IF fill.day_start >= fill.day_end
             THEN Emitted = <<>> /\ fill.cur = fill.day_start
             ELSE /\ fill.cur = fill.day_end
                  /\ Len(Emitted) = Ceil(fill.day_end - fill.day_start,
                                         fill.block_minutes))

\* A call over a range that is not a whole number of blocks has returned:
\* three blocks, the last one shorter than block_minutes.
C27_Witness ==
  /\ pc = "filled"
  /\ fill.block_minutes = 2
  /\ fill.day_end - fill.day_start = 5
  /\ Len(Emitted) = 3
  /\ Emitted[3].end - Emitted[3].start = 1
============================================================================
